---- MODULE Spec2Model ----
(***************************************************************************)
(* State-machine model of the idle-webz game engine: GameEngine and its    *)
(* collaborators ProducerManager, AutoBuyer and TypingEngine.              *)
(*                                                                         *)
(* Numbers.  The engine keeps resources as a double.  Here resources are   *)
(* counted in thousandths of a resource (Milli), so that the passive       *)
(* production of one millisecond and every typing reward are integers.     *)
(* Costs, totalSpent and quantities are whole numbers as in the code.      *)
(* The streak multiplier is counted in twentieths (streakStep = 1/20).     *)
(* Time is Date.now() in milliseconds, held in the variable now.           *)
(***************************************************************************)
EXTENDS Integers, Sequences, FiniteSets, TLC

VARIABLES
  engine,     \* the GameEngine instance with its three collaborators
  now,        \* Date.now()
  saved,      \* the snapshot last returned by save(), if any
  call,       \* the last operation called, its argument and its result
  enabledAt,  \* when toggleAutoBuy last switched auto-buy on; NoTime while it is off
  hist,       \* what the calls so far did: upgrades paid for, keys typed (history)
  steps       \* number of calls made so far

vars == <<engine, now, saved, call, enabledAt, hist, steps>>

(***************************************************************************)
(* Bounds of the model.                                                    *)
(***************************************************************************)
MaxSteps == 4
MaxQuantity == 4

(***************************************************************************)
(* Program constants.                                                      *)
(***************************************************************************)
Milli == 1000
StartTime == 100000
BASE_CLICK_POWER == 1
CHEAT_CLICK_VALUE == 100
BEST_VALUE_THROTTLE_MS == 5000
MAX_SPEED_LEVEL == 14
NoId == "none"
NoTime == -1
MANUAL_ID == "codingSession"

Min(a, b) == IF a < b THEN a ELSE b
Max(a, b) == IF a > b THEN a ELSE b

RECURSIVE Pow(_, _)
Pow(b, n) == IF n = 0 THEN 1 ELSE b * Pow(b, n - 1)

\* Producer order of initializeProducers: find/filter/for-of walk it in this order.
ProducerOrder ==
  <<"codingSession", "scriptRunner", "buildServer", "ciPipeline", "cloudOrchestrator">>

ProducerIds == {ProducerOrder[i] : i \in 1..Len(ProducerOrder)}

\* DEFAULT_COST_MULTIPLIER = 1.16 = 29/25; the manual producer has multiplier 1.
ProducerConfig ==
  [codingSession     |-> [baseCost |-> 0,     multNum |-> 1,  multDen |-> 1,
                          productionRate |-> 1,   unlockThreshold |-> 0],
   scriptRunner      |-> [baseCost |-> 120,   multNum |-> 29, multDen |-> 25,
                          productionRate |-> 1,   unlockThreshold |-> 100],
   buildServer       |-> [baseCost |-> 600,   multNum |-> 29, multDen |-> 25,
                          productionRate |-> 8,   unlockThreshold |-> 500],
   ciPipeline        |-> [baseCost |-> 3000,  multNum |-> 29, multDen |-> 25,
                          productionRate |-> 50,  unlockThreshold |-> 2500],
   cloudOrchestrator |-> [baseCost |-> 15000, multNum |-> 29, multDen |-> 25,
                          productionRate |-> 400, unlockThreshold |-> 12500]]

(***************************************************************************)
(* ProducerManager.getCost: Math.floor(baseCost * Math.pow(mult, quantity)) *)
(* ExactFloor carries the value as whole + rem / den^k, which is exact and *)
(* stays inside 32 bits.  The code multiplies doubles: 3000 * 1.16 is      *)
(* 3479.9999999999995 in IEEE-754, so that one product floors to 3479      *)
(* where the exact value is 3480 (DoubleRoundsBelow).                      *)
(***************************************************************************)
RECURSIVE ExactFloor(_, _, _, _, _, _)
ExactFloor(whole, rem, denPow, num, den, q) ==
  IF q = 0 THEN whole
  ELSE LET a == num * whole
           m == (a % den) * denPow + num * rem
       IN  ExactFloor((a \div den) + (m \div (denPow * den)), m % (denPow * den),
                      denPow * den, num, den, q - 1)

DoubleRoundsBelow == {<<3000, 1>>}

\* getCost taking the floor of the power before the multiplication.
CostAt_FloorsPower(id, q) ==
  LET c == ProducerConfig[id]
  IN  c.baseCost * ExactFloor(1, 0, 1, c.multNum, c.multDen, q)

\* ProducerManager.getCost at quantity q
CostAt(id, q) ==
  LET c == ProducerConfig[id]
      exact == ExactFloor(c.baseCost, 0, 1, c.multNum, c.multDen, q)
  IN  IF <<c.baseCost, q>> \in DoubleRoundsBelow THEN exact - 1 ELSE exact

getCost(e, id) == CostAt(id, e.quantity[id])

canAfford(e, id) == getCost(e, id) > 0 /\ e.resources >= getCost(e, id) * Milli

\* ProducerManager.totalProduction
RECURSIVE SumProduction(_, _)
SumProduction(e, i) ==
  IF i = 0 THEN 0
  ELSE LET id == ProducerOrder[i]
       IN  SumProduction(e, i - 1)
           + (IF id = MANUAL_ID THEN 0 ELSE ProducerConfig[id].productionRate * e.quantity[id])

totalProduction(e) == SumProduction(e, Len(ProducerOrder))

updateProductionRate(e) == [e EXCEPT !.productionRate = totalProduction(e)]

(***************************************************************************)
(* Best value.  RatioLess(e, p, b): cost(p)/rate(p) < cost(b)/rate(b).     *)
(***************************************************************************)
\* The comparison turned round: the loop keeps the largest ratio.
RatioLess_Reversed(e, p, b) ==
  getCost(e, p) * ProducerConfig[b].productionRate
    > getCost(e, b) * ProducerConfig[p].productionRate

RatioLess(e, p, b) ==
  getCost(e, p) * ProducerConfig[b].productionRate
    < getCost(e, b) * ProducerConfig[p].productionRate

\* The loop "best = c[0]; for (p of c) if (ratio(p) < bestRatio) best = p".
RECURSIVE PickBest(_, _, _, _)
PickBest(e, cands, i, best) ==
  IF i > Len(cands) THEN best
  ELSE PickBest(e, cands, i + 1, IF RatioLess(e, cands[i], best) THEN cands[i] ELSE best)

BestOf(e, cands) == IF Len(cands) = 0 THEN NoId ELSE PickBest(e, cands, 1, cands[1])

BestValueCandidates ==
  SelectSeq(ProducerOrder, LAMBDA id : id # MANUAL_ID /\ ProducerConfig[id].productionRate > 0)

\* ProducerManager.recalcBestValue(producers, now = Date.now())
recalcBestValue(e, t) ==
  IF t - e.producerManager.lastCalc < BEST_VALUE_THROTTLE_MS
     /\ e.producerManager.bestValueId # NoId
  THEN e
  ELSE [e EXCEPT !.producerManager =
          [lastCalc |-> t, bestValueId |-> BestOf(e, BestValueCandidates)]]

\* GameEngine.calculateBestValue
calculateBestValue(e, t) ==
  LET e1 == recalcBestValue(e, t)
  IN  [e1 EXCEPT !.bestValueProducerId = e1.producerManager.bestValueId]


\* applyUnlocks rebuilding the set from the current balance.
applyUnlocks_Recomputed(e) ==
  [e EXCEPT !.unlockedProducers =
     {MANUAL_ID} \cup {id \in ProducerIds :
               /\ ProducerConfig[id].unlockThreshold > 0
               /\ e.resources >= ProducerConfig[id].unlockThreshold * Milli}]

\* ProducerManager.applyUnlocks
applyUnlocks(e) ==
  [e EXCEPT !.unlockedProducers =
     @ \cup {id \in ProducerIds :
               /\ ProducerConfig[id].unlockThreshold > 0
               /\ e.resources >= ProducerConfig[id].unlockThreshold * Milli}]

\* purchase counting the unit before it checks the price.
purchase_CountsFirst(e, id) ==
  LET cost == getCost(e, id)
      e1 == [e EXCEPT !.quantity[id] = @ + 1]
  IN  IF e.resources < cost * Milli \/ cost <= 0
      THEN [success |-> FALSE, newResources |-> e.resources, e |-> e1]
      ELSE [success |-> TRUE, newResources |-> e.resources - cost * Milli,
            e |-> [e1 EXCEPT !.totalSpent[id] = @ + cost]]

\* purchase that forgets to add the price to totalSpent.
purchase_NoTotalSpent(e, id) ==
  LET cost == getCost(e, id)
  IN  IF e.resources < cost * Milli \/ cost <= 0
      THEN [success |-> FALSE, newResources |-> e.resources, e |-> e]
      ELSE [success |-> TRUE, newResources |-> e.resources - cost * Milli,
            e |-> [e EXCEPT !.quantity[id] = @ + 1]]

\* purchase adding to totalSpent the price of the next unit, read after the
\* quantity was incremented.
purchase_SpentAtNewCost(e, id) ==
  LET cost == getCost(e, id)
  IN  IF e.resources < cost * Milli \/ cost <= 0
      THEN [success |-> FALSE, newResources |-> e.resources, e |-> e]
      ELSE [success |-> TRUE, newResources |-> e.resources - cost * Milli,
            e |-> [e EXCEPT !.quantity[id] = @ + 1,
                            !.totalSpent[id] = @ + CostAt(id, e.quantity[id] + 1)]]

\* ProducerManager.purchase(target, resources): mutates the target, returns
\* the new balance; the caller stores it.
purchase(e, id) ==
  LET cost == getCost(e, id)
  IN  IF e.resources < cost * Milli \/ cost <= 0
      THEN [success |-> FALSE, newResources |-> e.resources, e |-> e]
      ELSE [success |-> TRUE, newResources |-> e.resources - cost * Milli,
            e |-> [e EXCEPT !.quantity[id] = @ + 1, !.totalSpent[id] = @ + cost]]

\* GameEngine.purchaseProducer
purchaseProducer(e, producerId, t) ==
  IF producerId \notin ProducerIds THEN [e |-> e, ret |-> FALSE]
  ELSE LET res == purchase(e, producerId)
       IN  IF ~res.success THEN [e |-> res.e, ret |-> FALSE]
           ELSE [e |-> calculateBestValue(
                         updateProductionRate([res.e EXCEPT !.resources = res.newResources]), t),
                 ret |-> TRUE]

(***************************************************************************)
(* AutoBuyer                                                               *)
(***************************************************************************)
NewAutoBuyer(t) == [enabled |-> FALSE, speedLevel |-> 0, lastBuy |-> t]

\* AutoBuyer.getIntervalMs and GameEngine.getAutoBuyInterval (same formula)
IntervalOf(level) == Max(2000, 30000 - level * 2000)

getIntervalMs(ab) == IntervalOf(ab.speedLevel)

getAutoBuyInterval(e) == IntervalOf(e.autoBuySpeedLevel)

CeilDiv(a, b) == (a + b - 1) \div b

\* AutoBuyer.getSecondsUntilNext
getSecondsUntilNext(ab, t) ==
  IF ~ab.enabled THEN 0
  ELSE CeilDiv(Max(0, getIntervalMs(ab) - (t - ab.lastBuy)), 1000)

\* The filter of tryPurchaseBest: non-manual producers with resources >= cost.
Affordable(e) ==
  SelectSeq(ProducerOrder,
            LAMBDA id : id # MANUAL_ID /\ e.resources >= getCost(e, id) * Milli)

\* tryPurchaseBest stamping lastBuy on every elapsed cycle, bought or not.
tryPurchaseBest_AlwaysStamps(ab, t, e) ==
  IF ~ab.enabled THEN [ab |-> ab, id |-> NoId]
  ELSE IF t - ab.lastBuy < getIntervalMs(ab) THEN [ab |-> ab, id |-> NoId]
  ELSE IF Len(Affordable(e)) = 0 THEN [ab |-> [ab EXCEPT !.lastBuy = t], id |-> NoId]
  ELSE [ab |-> [ab EXCEPT !.lastBuy = t], id |-> BestOf(e, Affordable(e))]

\* tryPurchaseBest never stamping lastBuy.
tryPurchaseBest_NoStamp(ab, t, e) ==
  IF ~ab.enabled THEN [ab |-> ab, id |-> NoId]
  ELSE IF t - ab.lastBuy < getIntervalMs(ab) THEN [ab |-> ab, id |-> NoId]
  ELSE IF Len(Affordable(e)) = 0 THEN [ab |-> ab, id |-> NoId]
  ELSE [ab |-> ab, id |-> BestOf(e, Affordable(e))]

\* AutoBuyer.tryPurchaseBest: the chosen id (NoId for null) and the auto-buyer after it.
tryPurchaseBest(ab, t, e) ==
  IF ~ab.enabled THEN [ab |-> ab, id |-> NoId]
  ELSE IF t - ab.lastBuy < getIntervalMs(ab) THEN [ab |-> ab, id |-> NoId]
  ELSE IF Len(Affordable(e)) = 0 THEN [ab |-> ab, id |-> NoId]
  ELSE [ab |-> [ab EXCEPT !.lastBuy = t], id |-> BestOf(e, Affordable(e))]

\* handleAutoBuy leaving the production rate as it was before the purchase.
handleAutoBuy_StaleRate(e, t) ==
  LET ab1 == [e.autoBuyer EXCEPT !.enabled = e.autoBuyEnabled,
                                 !.speedLevel = e.autoBuySpeedLevel]
      r   == tryPurchaseBest(ab1, t, e)
      e1  == [e EXCEPT !.autoBuyer = r.ab]
  IN  IF r.id = NoId THEN e1
      ELSE LET res == purchase(e1, r.id)
           IN  IF ~res.success THEN res.e
               ELSE [res.e EXCEPT !.resources = res.newResources]

\* GameEngine.handleAutoBuy
handleAutoBuy(e, t) ==
  LET ab1 == [e.autoBuyer EXCEPT !.enabled = e.autoBuyEnabled,
                                 !.speedLevel = e.autoBuySpeedLevel]
      r   == tryPurchaseBest(ab1, t, e)
      e1  == [e EXCEPT !.autoBuyer = r.ab]
  IN  IF r.id = NoId THEN e1
      ELSE LET res == purchase(e1, r.id)
           IN  IF ~res.success THEN res.e
               ELSE updateProductionRate([res.e EXCEPT !.resources = res.newResources])

\* GameEngine.update up to the auto-buy step: the timestamp, the unlocks, then
\* productionRate * deltaTime added to resources.
Produce(e, t) ==
  LET deltaMs == t - e.lastUpdate
      e1 == applyUnlocks([e EXCEPT !.lastUpdate = t])
  IN  IF e1.productionRate > 0
      THEN [e1 EXCEPT !.resources = @ + e1.productionRate * deltaMs]
      ELSE e1

\* GameEngine.update
update(e, t) ==
  LET e2 == Produce(e, t)
  IN  IF e2.autoBuyEnabled THEN handleAutoBuy(e2, t) ELSE e2

(***************************************************************************)
(* Clicks and upgrades                                                     *)
(***************************************************************************)
\* getClickValue growing by one base click per level instead of doubling.
getClickValue_Linear(e) == BASE_CLICK_POWER * (1 + e.clickPowerLevel) * Milli

\* GameEngine.getClickValue
getClickValue(e) == BASE_CLICK_POWER * Pow(2, e.clickPowerLevel) * Milli

\* resources >= cost, for resources kept in Milli and a whole cost: the whole
\* part of the resources is compared, so that a cost above the largest
\* resources that can be held is still compared exactly.
CanPay(e, cost) == e.resources \div Milli >= cost

click(e) == [e EXCEPT !.resources = @ + getClickValue(e)]

cheatClick(e) == [e EXCEPT !.resources = @ + CHEAT_CLICK_VALUE * Milli]

\* constants/gameConstants UPGRADES: one-time upgrades and their costs.
UPGRADES == [typing |-> 3000, autoBuy |-> 5000, challenges |-> 20000]

UpgradeIds == DOMAIN UPGRADES

\* purchaseUpgrade without its "already purchased" check.
purchaseUpgrade_NoOwnedCheck(e, upgradeId) ==
  IF upgradeId \notin UpgradeIds THEN [e |-> e, ret |-> FALSE]
  ELSE IF e.resources < UPGRADES[upgradeId] * Milli THEN [e |-> e, ret |-> FALSE]
  ELSE [e |-> [e EXCEPT !.resources = @ - UPGRADES[upgradeId] * Milli,
                        !.purchasedUpgrades = @ \cup {upgradeId}],
        ret |-> TRUE]

\* GameEngine.purchaseUpgrade
purchaseUpgrade(e, upgradeId) ==
  IF upgradeId \in e.purchasedUpgrades THEN [e |-> e, ret |-> FALSE]
  ELSE IF upgradeId \notin UpgradeIds THEN [e |-> e, ret |-> FALSE]
  ELSE IF e.resources < UPGRADES[upgradeId] * Milli THEN [e |-> e, ret |-> FALSE]
  ELSE [e |-> [e EXCEPT !.resources = @ - UPGRADES[upgradeId] * Milli,
                        !.purchasedUpgrades = @ \cup {upgradeId}],
        ret |-> TRUE]

\* GameEngine.getAutoBuySpeedUpgradeCost: floor(10000 * 1.5^level)
SpeedUpgradeCostAt(level) == ExactFloor(10000, 0, 1, 3, 2, level)

getAutoBuySpeedUpgradeCost(e) == SpeedUpgradeCostAt(e.autoBuySpeedLevel)

\* The two tests of canAffordAutoBuySpeedUpgrade, on the values it reads:
\* whether the automation upgrade is owned, the whole resources held (the
\* cost is a whole number) and the speed level.
SpeedUpgradeAffordable(owned, whole, level) ==
  IF ~owned THEN FALSE
  ELSE whole >= SpeedUpgradeCostAt(level)

\* The three tests of purchaseAutoBuySpeedUpgrade, in its order, on the same
\* values: TRUE when the purchase goes through.
SpeedUpgradeSells(owned, whole, level) ==
  IF ~owned THEN FALSE
  ELSE IF whole < SpeedUpgradeCostAt(level) THEN FALSE
  ELSE IF level >= MAX_SPEED_LEVEL THEN FALSE
  ELSE TRUE

\* GameEngine.canAffordAutoBuySpeedUpgrade
canAffordAutoBuySpeedUpgrade(e) ==
  SpeedUpgradeAffordable("autoBuy" \in e.purchasedUpgrades,
                         e.resources \div Milli, e.autoBuySpeedLevel)

\* purchaseAutoBuySpeedUpgrade without its check of the automation upgrade.
purchaseAutoBuySpeedUpgrade_Ungated(e) ==
  IF ~CanPay(e, getAutoBuySpeedUpgradeCost(e)) THEN [e |-> e, ret |-> FALSE]
  ELSE IF e.autoBuySpeedLevel >= MAX_SPEED_LEVEL THEN [e |-> e, ret |-> FALSE]
  ELSE [e |-> [e EXCEPT !.resources = @ - getAutoBuySpeedUpgradeCost(e) * Milli,
                        !.autoBuySpeedLevel = @ + 1],
        ret |-> TRUE]

\* GameEngine.purchaseAutoBuySpeedUpgrade
purchaseAutoBuySpeedUpgrade(e) ==
  IF ~SpeedUpgradeSells("autoBuy" \in e.purchasedUpgrades,
                        e.resources \div Milli, e.autoBuySpeedLevel)
  THEN [e |-> e, ret |-> FALSE]
  ELSE [e |-> [e EXCEPT !.resources = @ - getAutoBuySpeedUpgradeCost(e) * Milli,
                        !.autoBuySpeedLevel = @ + 1],
        ret |-> TRUE]

\* GameEngine.getClickPowerUpgradeCost: floor(10000 * 2^level)
getClickPowerUpgradeCost(e) == 10000 * Pow(2, e.clickPowerLevel)

canAffordClickPowerUpgrade(e) == CanPay(e, getClickPowerUpgradeCost(e))

\* purchaseClickPowerUpgrade without its check of the resources.
purchaseClickPowerUpgrade_NoFundsCheck(e) ==
  [e |-> [e EXCEPT !.resources = @ - getClickPowerUpgradeCost(e) * Milli,
                   !.clickPowerLevel = @ + 1],
   ret |-> TRUE]

\* GameEngine.purchaseClickPowerUpgrade
purchaseClickPowerUpgrade(e) ==
  IF ~CanPay(e, getClickPowerUpgradeCost(e)) THEN [e |-> e, ret |-> FALSE]
  ELSE [e |-> [e EXCEPT !.resources = @ - getClickPowerUpgradeCost(e) * Milli,
                        !.clickPowerLevel = @ + 1],
        ret |-> TRUE]

\* GameEngine.toggleAutoBuy
toggleAutoBuy(e, t) ==
  IF "autoBuy" \notin e.purchasedUpgrades THEN e
  ELSE LET e1 == [e EXCEPT !.autoBuyEnabled = ~@]
       IN  IF e1.autoBuyEnabled THEN [e1 EXCEPT !.lastAutoBuy = t] ELSE e1

\* toggleChallenges without its check of the gating upgrade.
toggleChallenges_Ungated(e) ==
  [e EXCEPT !.challengesEnabled = ~@, !.typing.challengesEnabled = ~e.challengesEnabled]

\* GameEngine.toggleChallenges
toggleChallenges(e) ==
  IF "challenges" \notin e.purchasedUpgrades THEN e
  ELSE [e EXCEPT !.challengesEnabled = ~@, !.typing.challengesEnabled = ~e.challengesEnabled]


(***************************************************************************)
(* TypingEngine.  Rewards are in Milli; the streak multiplier is in        *)
(* twentieths: 1 + streak * 0.05 is 20 + streak, capped at 2.0 = 40.       *)
(***************************************************************************)
MaxCatalog == 2

baseCharValue == 500
wordBonusMultiplier == 2
challengeRewardMultiplier == 5
StreakDen == 20
maxStreakMultiplier == 40
wordsPerChallenge == 10

WORD_BOUNDARIES == {" ", "\n", "\t", ".", ",", "!", "?", ";", ":"}

\* constants/challenges MINI_CHALLENGES; a snippet is its sequence of characters.
MINI_CHALLENGES ==
  << [id |-> "git-init", timeLimitSeconds |-> 6,
      snippet |-> <<"g","i","t"," ","i","n","i","t">>],
     [id |-> "npm-install", timeLimitSeconds |-> 8,
      snippet |-> <<"n","p","m"," ","i","n","s","t","a","l","l">>],
     [id |-> "build-script", timeLimitSeconds |-> 9,
      snippet |-> <<"n","p","m"," ","r","u","n"," ","b","u","i","l","d">>],
     [id |-> "test-run", timeLimitSeconds |-> 7,
      snippet |-> <<"n","p","m"," ","t","e","s","t">>],
     [id |-> "eslint-fix", timeLimitSeconds |-> 12,
      snippet |-> <<"n","p","x"," ","e","s","l","i","n","t"," ","."," ","-","-","f","i","x">>],
     [id |-> "docker-build", timeLimitSeconds |-> 10,
      snippet |-> <<"d","o","c","k","e","r"," ","b","u","i","l","d"," ",".">>],
     [id |-> "deploy", timeLimitSeconds |-> 13,
      snippet |-> <<"g","i","t"," ","p","u","s","h"," ","o","r","i","g","i","n"," ","m","a","i","n">>] >>

\* The indices pickRandomChallenge may return in this model.
CatalogChoices == 1..Min(MaxCatalog, Len(MINI_CHALLENGES))

NoChallenge ==
  [active |-> FALSE, id |-> NoId, snippet |-> <<>>, timeLimitMs |-> 0,
   startTime |-> 0, progress |-> 0, startedOnNewLine |-> FALSE]

NewTypingEngine ==
  [lastTypedChar |-> "", consecutiveSameCharCount |-> 0,
   wordsTyped |-> 0, streakWords |-> 0, currentWordLength |-> 0,
   challenge |-> NoChallenge, lastChallengeWords |-> 0,
   completedChallenges |-> 0, failedChallenges |-> 0, challengesEnabled |-> TRUE]

\* TypingEngine.getCurrentStreakMultiplier (in twentieths)
getCurrentStreakMultiplier(ty) == Min(maxStreakMultiplier, StreakDen + ty.streakWords)

\* TypingEngine.startChallenge with def = pickRandomChallenge()
startChallenge(ty, def, t) ==
  [ty EXCEPT !.challenge =
        [active |-> TRUE, id |-> def.id, snippet |-> def.snippet,
         timeLimitMs |-> def.timeLimitSeconds * 1000, startTime |-> t,
         progress |-> 0, startedOnNewLine |-> FALSE],
      !.lastChallengeWords = ty.wordsTyped]

\* triggerChallenge replacing a challenge that is active.
triggerChallenge_Replaces(ty, def, t) == [ty |-> startChallenge(ty, def, t), ret |-> TRUE]

\* TypingEngine.triggerChallenge
triggerChallenge(ty, def, t) ==
  IF ty.challenge.active THEN [ty |-> ty, ret |-> FALSE]
  ELSE [ty |-> startChallenge(ty, def, t), ret |-> TRUE]

\* completeChallenge paying at the streak raised by the completion.
completeChallenge_PaysAfterBoost(ty) ==
  IF ~ty.challenge.active THEN [ty |-> ty, gain |-> 0]
  ELSE [ty |-> [ty EXCEPT !.completedChallenges = @ + 1, !.streakWords = @ + 1,
                          !.challenge = NoChallenge],
        gain |-> (Len(ty.challenge.snippet) * baseCharValue * challengeRewardMultiplier
                    * Min(maxStreakMultiplier, StreakDen + ty.streakWords + 1)) \div StreakDen]

\* TypingEngine.completeChallenge: the typing engine after it and the reward.
completeChallenge(ty) ==
  IF ~ty.challenge.active THEN [ty |-> ty, gain |-> 0]
  ELSE [ty |-> [ty EXCEPT !.completedChallenges = @ + 1, !.streakWords = @ + 1,
                          !.challenge = NoChallenge],
        gain |-> (Len(ty.challenge.snippet) * baseCharValue * challengeRewardMultiplier
                    * getCurrentStreakMultiplier(ty)) \div StreakDen]

\* failChallenge leaving the streak as it is.
failChallenge_KeepsStreak(ty) ==
  IF ~ty.challenge.active THEN ty
  ELSE [ty EXCEPT !.failedChallenges = @ + 1, !.challenge = NoChallenge]

\* failChallenge leaving the failed challenge in its slot.
failChallenge_KeepsChallenge(ty) ==
  IF ~ty.challenge.active THEN ty
  ELSE [ty EXCEPT !.failedChallenges = @ + 1, !.streakWords = 0]

\* TypingEngine.failChallenge
failChallenge(ty) ==
  IF ~ty.challenge.active THEN ty
  ELSE [ty EXCEPT !.failedChallenges = @ + 1, !.streakWords = 0, !.challenge = NoChallenge]

\* TypingEngine.completeWord
completeWord(ty) ==
  LET ty1 == [ty EXCEPT !.wordsTyped = @ + 1, !.streakWords = @ + 1]
  IN  [ty |-> ty1,
       gain |-> (ty1.currentWordLength * baseCharValue * wordBonusMultiplier
                   * getCurrentStreakMultiplier(ty1)) \div StreakDen]

\* handleWordBoundary starting challenges whether or not they are enabled.
handleWordBoundary_IgnoresSwitch(ty, def, t) ==
  LET w   == IF ty.currentWordLength > 0 THEN completeWord(ty) ELSE [ty |-> ty, gain |-> 0]
      ty1 == [w.ty EXCEPT !.currentWordLength = 0]
  IN  [ty |-> IF /\ ~ty1.challenge.active
                 /\ ty1.wordsTyped > 0
                 /\ ty1.wordsTyped - ty1.lastChallengeWords >= wordsPerChallenge
              THEN startChallenge(ty1, def, t)
              ELSE ty1,
       gain |-> w.gain]

\* handleWordBoundary starting the automatic challenge one word early.
handleWordBoundary_OneWordEarly(ty, def, t) ==
  LET w   == IF ty.currentWordLength > 0 THEN completeWord(ty) ELSE [ty |-> ty, gain |-> 0]
      ty1 == [w.ty EXCEPT !.currentWordLength = 0]
  IN  [ty |-> IF /\ ty1.challengesEnabled
                 /\ ~ty1.challenge.active
                 /\ ty1.wordsTyped > 0
                 /\ ty1.wordsTyped - ty1.lastChallengeWords >= wordsPerChallenge - 1
              THEN startChallenge(ty1, def, t)
              ELSE ty1,
       gain |-> w.gain]

\* TypingEngine.handleWordBoundary
handleWordBoundary(ty, def, t) ==
  LET w   == IF ty.currentWordLength > 0 THEN completeWord(ty) ELSE [ty |-> ty, gain |-> 0]
      ty1 == [w.ty EXCEPT !.currentWordLength = 0]
  IN  [ty |-> IF /\ ty1.challengesEnabled
                 /\ ~ty1.challenge.active
                 /\ ty1.wordsTyped > 0
                 /\ ty1.wordsTyped - ty1.lastChallengeWords >= wordsPerChallenge
              THEN startChallenge(ty1, def, t)
              ELSE ty1,
       gain |-> w.gain]

\* The challenge block failing a waiting challenge on any key but the newline.
ChallengeStep_StrictStart(ty, char, t) ==
  LET c == ty.challenge
  IN  IF ~c.active THEN [ty |-> ty, gain |-> 0, done |-> FALSE]
      ELSE IF t - c.startTime > c.timeLimitMs
        THEN [ty |-> failChallenge(ty), gain |-> 0, done |-> FALSE]
      ELSE IF ~c.startedOnNewLine
        THEN IF char = "\n"
             THEN [ty |-> [ty EXCEPT !.challenge.startedOnNewLine = TRUE],
                   gain |-> 0, done |-> TRUE]
             ELSE [ty |-> failChallenge(ty), gain |-> 0, done |-> FALSE]
      ELSE IF char = "\n"
        THEN [ty |-> failChallenge(ty), gain |-> 0, done |-> FALSE]
      ELSE IF char = c.snippet[c.progress + 1]
        THEN LET ty1 == [ty EXCEPT !.challenge.progress = @ + 1]
             IN  IF ty1.challenge.progress >= Len(c.snippet)
                 THEN LET r == completeChallenge(ty1)
                      IN  [ty |-> r.ty, gain |-> r.gain, done |-> FALSE]
                 ELSE [ty |-> ty1, gain |-> 0, done |-> FALSE]
      ELSE [ty |-> failChallenge(ty), gain |-> 0, done |-> FALSE]

\* The challenge block ignoring a newline typed after the start.
ChallengeStep_NewlineIgnored(ty, char, t) ==
  LET c == ty.challenge
  IN  IF ~c.active THEN [ty |-> ty, gain |-> 0, done |-> FALSE]
      ELSE IF t - c.startTime > c.timeLimitMs
        THEN [ty |-> failChallenge(ty), gain |-> 0, done |-> FALSE]
      ELSE IF ~c.startedOnNewLine
        THEN IF char = "\n"
             THEN [ty |-> [ty EXCEPT !.challenge.startedOnNewLine = TRUE],
                   gain |-> 0, done |-> TRUE]
             ELSE [ty |-> ty, gain |-> 0, done |-> FALSE]
      ELSE IF char = "\n"
        THEN [ty |-> ty, gain |-> 0, done |-> FALSE]
      ELSE IF char = c.snippet[c.progress + 1]
        THEN LET ty1 == [ty EXCEPT !.challenge.progress = @ + 1]
             IN  IF ty1.challenge.progress >= Len(c.snippet)
                 THEN LET r == completeChallenge(ty1)
                      IN  [ty |-> r.ty, gain |-> r.gain, done |-> FALSE]
                 ELSE [ty |-> ty1, gain |-> 0, done |-> FALSE]
      ELSE [ty |-> failChallenge(ty), gain |-> 0, done |-> FALSE]

\* The challenge branch of handleChar looking at the deadline only after a
\* character that is not the expected one.
ChallengeStep_DeadlineLast(ty, char, t) ==
  LET c == ty.challenge
  IN  IF ~c.active THEN [ty |-> ty, gain |-> 0, done |-> FALSE]
      ELSE IF c.startedOnNewLine /\ char # "\n" /\ char = c.snippet[c.progress + 1]
        THEN LET ty1 == [ty EXCEPT !.challenge.progress = @ + 1]
             IN  IF ty1.challenge.progress >= Len(c.snippet)
                 THEN LET r == completeChallenge(ty1)
                      IN  [ty |-> r.ty, gain |-> r.gain, done |-> FALSE]
                 ELSE [ty |-> ty1, gain |-> 0, done |-> FALSE]
      ELSE IF t - c.startTime > c.timeLimitMs
        THEN [ty |-> failChallenge(ty), gain |-> 0, done |-> FALSE]
      ELSE IF ~c.startedOnNewLine
        THEN IF char = "\n"
             THEN [ty |-> [ty EXCEPT !.challenge.startedOnNewLine = TRUE],
                   gain |-> 0, done |-> TRUE]
             ELSE [ty |-> ty, gain |-> 0, done |-> FALSE]
      ELSE [ty |-> failChallenge(ty), gain |-> 0, done |-> FALSE]

\* The challenge branch of handleChar going on to reward the newline that
\* starts a challenge (no early return).
ChallengeStep_StartCountsKey(ty, char, t) ==
  LET c == ty.challenge
  IN  IF ~c.active THEN [ty |-> ty, gain |-> 0, done |-> FALSE]
      ELSE IF t - c.startTime > c.timeLimitMs
        THEN [ty |-> failChallenge(ty), gain |-> 0, done |-> FALSE]
      ELSE IF ~c.startedOnNewLine
        THEN IF char = "\n"
             THEN [ty |-> [ty EXCEPT !.challenge.startedOnNewLine = TRUE],
                   gain |-> 0, done |-> FALSE]
             ELSE [ty |-> ty, gain |-> 0, done |-> FALSE]
      ELSE IF char = "\n"
        THEN [ty |-> failChallenge(ty), gain |-> 0, done |-> FALSE]
      ELSE IF char = c.snippet[c.progress + 1]
        THEN LET ty1 == [ty EXCEPT !.challenge.progress = @ + 1]
             IN  IF ty1.challenge.progress >= Len(c.snippet)
                 THEN LET r == completeChallenge(ty1)
                      IN  [ty |-> r.ty, gain |-> r.gain, done |-> FALSE]
                 ELSE [ty |-> ty1, gain |-> 0, done |-> FALSE]
      ELSE [ty |-> failChallenge(ty), gain |-> 0, done |-> FALSE]

\* The "Handle active challenge" block of handleChar; done = the early return.
ChallengeStep(ty, char, t) ==
  LET c == ty.challenge
  IN  IF ~c.active THEN [ty |-> ty, gain |-> 0, done |-> FALSE]
      ELSE IF t - c.startTime > c.timeLimitMs
        THEN [ty |-> failChallenge(ty), gain |-> 0, done |-> FALSE]
      ELSE IF ~c.startedOnNewLine
        THEN IF char = "\n"
             THEN [ty |-> [ty EXCEPT !.challenge.startedOnNewLine = TRUE],
                   gain |-> 0, done |-> TRUE]
             ELSE [ty |-> ty, gain |-> 0, done |-> FALSE]
      ELSE IF char = "\n"
        THEN [ty |-> failChallenge(ty), gain |-> 0, done |-> FALSE]
      ELSE IF char = c.snippet[c.progress + 1]
        THEN LET ty1 == [ty EXCEPT !.challenge.progress = @ + 1]
             IN  IF ty1.challenge.progress >= Len(c.snippet)
                 THEN LET r == completeChallenge(ty1)
                      IN  [ty |-> r.ty, gain |-> r.gain, done |-> FALSE]
                 ELSE [ty |-> ty1, gain |-> 0, done |-> FALSE]
      ELSE [ty |-> failChallenge(ty), gain |-> 0, done |-> FALSE]

\* handleChar in which a damped repeat does not extend the current word.
handleChar_DampedNotCounted(ty, char, def, t) ==
  LET s == ChallengeStep(ty, char, t)
  IN  IF s.done THEN [ty |-> s.ty, gain |-> s.gain]
      ELSE
        LET ty1 == IF s.ty.lastTypedChar = char
                   THEN [s.ty EXCEPT !.consecutiveSameCharCount = @ + 1]
                   ELSE [s.ty EXCEPT !.lastTypedChar = char, !.consecutiveSameCharCount = 1]
        IN  IF ty1.consecutiveSameCharCount >= 3
            THEN IF char \notin WORD_BOUNDARIES
                 THEN [ty |-> ty1, gain |-> s.gain]
                 ELSE LET b == handleWordBoundary(ty1, def, t)
                      IN  [ty |-> b.ty, gain |-> s.gain + b.gain]
            ELSE IF char \notin WORD_BOUNDARIES
                 THEN [ty |-> [ty1 EXCEPT !.currentWordLength = @ + 1],
                       gain |-> s.gain
                                + (baseCharValue * getCurrentStreakMultiplier(ty1)) \div StreakDen]
                 ELSE LET b == handleWordBoundary(ty1, def, t)
                      IN  [ty |-> b.ty, gain |-> s.gain + b.gain]

\* TypingEngine.handleChar: the typing engine after it and the resources added.
handleChar(ty, char, def, t) ==
  LET s == ChallengeStep(ty, char, t)
  IN  IF s.done THEN [ty |-> s.ty, gain |-> s.gain]
      ELSE
        LET ty1 == IF s.ty.lastTypedChar = char
                   THEN [s.ty EXCEPT !.consecutiveSameCharCount = @ + 1]
                   ELSE [s.ty EXCEPT !.lastTypedChar = char, !.consecutiveSameCharCount = 1]
        IN  IF ty1.consecutiveSameCharCount >= 3
            THEN IF char \notin WORD_BOUNDARIES
                 THEN [ty |-> [ty1 EXCEPT !.currentWordLength = @ + 1], gain |-> s.gain]
                 ELSE LET b == handleWordBoundary(ty1, def, t)
                      IN  [ty |-> b.ty, gain |-> s.gain + b.gain]
            ELSE IF char \notin WORD_BOUNDARIES
                 THEN [ty |-> [ty1 EXCEPT !.currentWordLength = @ + 1],
                       gain |-> s.gain
                                + (baseCharValue * getCurrentStreakMultiplier(ty1)) \div StreakDen]
                 ELSE LET b == handleWordBoundary(ty1, def, t)
                      IN  [ty |-> b.ty, gain |-> s.gain + b.gain]

\* GameEngine.typeChar
typeChar(e, char, def, t) ==
  LET r == handleChar(e.typing, char, def, t)
  IN  [e EXCEPT !.typing = r.ty, !.resources = @ + r.gain]

\* TypingEngine.getUIState
getUIState(ty, t) ==
  [wordsTyped |-> ty.wordsTyped,
   streakWords |-> ty.streakWords,
   currentStreakMultiplier |-> getCurrentStreakMultiplier(ty),
   challenge |-> IF ty.challenge.active
                 THEN [active |-> TRUE, id |-> ty.challenge.id,
                       progress |-> ty.challenge.progress,
                       total |-> Len(ty.challenge.snippet),
                       timeRemaining |->
                         Max(0, CeilDiv(ty.challenge.timeLimitMs - (t - ty.challenge.startTime), 1000)),
                       startedOnNewLine |-> ty.challenge.startedOnNewLine]
                 ELSE [active |-> FALSE, id |-> NoId, progress |-> 0, total |-> 0,
                       timeRemaining |-> 0, startedOnNewLine |-> FALSE],
   nextChallengeInWords |->
     IF ty.challenge.active THEN 0
     ELSE Max(0, wordsPerChallenge - (ty.wordsTyped - ty.lastChallengeWords)),
   completedChallenges |-> ty.completedChallenges,
   failedChallenges |-> ty.failedChallenges,
   challengesEnabled |-> ty.challengesEnabled]


(***************************************************************************)
(* GameEngine: construction, reset, save, load, getState                   *)
(***************************************************************************)
\* The visible set, the purchased set and the click-power level of a new engine.
InitialUnlockedProducers == {MANUAL_ID}
InitialPurchasedUpgrades == {}
InitialClickPowerLevel == 0
InitialChallengesEnabled == TRUE

\* GameEngine constructor at Date.now() = t
NewEngine(t) ==
  [resources |-> 0, productionRate |-> 0, lastUpdate |-> t,
   autoBuyEnabled |-> FALSE, autoBuySpeedLevel |-> 0, lastAutoBuy |-> t,
   quantity |-> [id \in ProducerIds |-> 0],
   totalSpent |-> [id \in ProducerIds |-> 0],
   bestValueProducerId |-> NoId,
   unlockedProducers |-> InitialUnlockedProducers,
   purchasedUpgrades |-> InitialPurchasedUpgrades,
   clickPowerLevel |-> InitialClickPowerLevel,
   challengesEnabled |-> InitialChallengesEnabled,
   typing |-> NewTypingEngine,
   autoBuyer |-> NewAutoBuyer(t),
   producerManager |-> [bestValueId |-> NoId, lastCalc |-> 0]]

\* GameEngine.reset
reset(e, t) ==
  [e EXCEPT !.resources = 0, !.productionRate = 0,
            !.autoBuyEnabled = FALSE, !.autoBuySpeedLevel = 0, !.lastAutoBuy = t,
            !.quantity = [id \in ProducerIds |-> 0],
            !.totalSpent = [id \in ProducerIds |-> 0],
            !.lastUpdate = t]

\* save writing the producers without their totalSpent.
save_NoTotalSpent(e) ==
  [resources |-> e.resources,
   producers |-> [id \in ProducerIds |-> [quantity |-> e.quantity[id]]],
   lastUpdate |-> e.lastUpdate,
   autoBuyEnabled |-> e.autoBuyEnabled,
   autoBuySpeedLevel |-> e.autoBuySpeedLevel,
   unlockedProducers |-> e.unlockedProducers,
   purchasedUpgrades |-> e.purchasedUpgrades,
   clickPowerLevel |-> e.clickPowerLevel,
   challengesEnabled |-> e.challengesEnabled]

\* GameEngine.save
save(e) ==
  [resources |-> e.resources,
   producers |-> [id \in ProducerIds |->
                    [quantity |-> e.quantity[id], totalSpent |-> e.totalSpent[id]]],
   lastUpdate |-> e.lastUpdate,
   autoBuyEnabled |-> e.autoBuyEnabled,
   autoBuySpeedLevel |-> e.autoBuySpeedLevel,
   unlockedProducers |-> e.unlockedProducers,
   purchasedUpgrades |-> e.purchasedUpgrades,
   clickPowerLevel |-> e.clickPowerLevel,
   challengesEnabled |-> e.challengesEnabled]

Has(s, f) == f \in DOMAIN s

\* The producers loop of load: known ids take the saved quantity, and the saved
\* totalSpent when the entry has one.
LoadProducers(e, ps) ==
  updateProductionRate(
    [e EXCEPT
       !.quantity = [id \in ProducerIds |->
                       IF id \in DOMAIN ps THEN ps[id].quantity ELSE e.quantity[id]],
       !.totalSpent = [id \in ProducerIds |->
                       IF id \in DOMAIN ps /\ Has(ps[id], "totalSpent")
                       THEN ps[id].totalSpent ELSE e.totalSpent[id]]])

\* load putting the constructor's value wherever the snapshot has no field.
load_DefaultsMissing(e, s) ==
  LET d == save(NewEngine(e.lastUpdate))
      v(f) == IF Has(s, f) THEN s[f] ELSE d[f]
      e1 == LoadProducers([e EXCEPT !.resources = v("resources")], v("producers"))
  IN  [e1 EXCEPT
         !.lastUpdate = v("lastUpdate"),
         !.autoBuyEnabled = v("autoBuyEnabled"),
         !.autoBuySpeedLevel = v("autoBuySpeedLevel"),
         !.unlockedProducers = v("unlockedProducers"),
         !.clickPowerLevel = v("clickPowerLevel"),
         !.challengesEnabled = v("challengesEnabled"),
         !.typing.challengesEnabled = v("challengesEnabled"),
         !.purchasedUpgrades =
            v("purchasedUpgrades")
              \cup (IF Has(s, "autoBuyUnlocked") /\ s.autoBuyUnlocked
                    THEN {"autoBuy"} ELSE {})
              \cup (IF Has(s, "typingUnlocked") /\ s.typingUnlocked
                    THEN {"typing"} ELSE {})]

\* GameEngine.load: each field is applied only when the snapshot has it.
load(e, s) ==
  LET e1 == IF Has(s, "resources") THEN [e EXCEPT !.resources = s.resources] ELSE e
      e2 == IF Has(s, "producers") THEN LoadProducers(e1, s.producers) ELSE e1
      e3 == IF Has(s, "lastUpdate") /\ s.lastUpdate # 0
            THEN [e2 EXCEPT !.lastUpdate = s.lastUpdate] ELSE e2
      e4 == IF Has(s, "autoBuyEnabled")
            THEN [e3 EXCEPT !.autoBuyEnabled = s.autoBuyEnabled] ELSE e3
      e5 == IF Has(s, "autoBuySpeedLevel")
            THEN [e4 EXCEPT !.autoBuySpeedLevel = s.autoBuySpeedLevel] ELSE e4
      e6 == IF Has(s, "unlockedProducers")
            THEN [e5 EXCEPT !.unlockedProducers = s.unlockedProducers] ELSE e5
      e7 == IF Has(s, "purchasedUpgrades")
            THEN [e6 EXCEPT !.purchasedUpgrades = s.purchasedUpgrades] ELSE e6
      e8 == IF Has(s, "clickPowerLevel")
            THEN [e7 EXCEPT !.clickPowerLevel = s.clickPowerLevel] ELSE e7
      e9 == IF Has(s, "challengesEnabled")
            THEN [e8 EXCEPT !.challengesEnabled = s.challengesEnabled,
                            !.typing.challengesEnabled = s.challengesEnabled]
            ELSE e8
      e10 == IF Has(s, "autoBuyUnlocked") /\ s.autoBuyUnlocked
             THEN [e9 EXCEPT !.purchasedUpgrades = @ \cup {"autoBuy"}] ELSE e9
  IN  IF Has(s, "typingUnlocked") /\ s.typingUnlocked
      THEN [e10 EXCEPT !.purchasedUpgrades = @ \cup {"typing"}] ELSE e10

\* GameEngine.getUpgrades
getUpgrades(e) ==
  [u \in UpgradeIds |->
     [cost |-> UPGRADES[u],
      purchased |-> u \in e.purchasedUpgrades,
      canAfford |-> e.resources >= UPGRADES[u] * Milli /\ u \notin e.purchasedUpgrades]]

\* GameEngine.getState at Date.now() = t: the returned view.  The call first
\* runs calculateBestValue, which the action GetState stores.
getState(e, t) ==
  LET e1 == calculateBestValue(e, t)
  IN  [resources |-> e1.resources,
       productionRate |-> e1.productionRate,
       producers |-> [id \in ProducerIds |->
                        [quantity |-> e1.quantity[id], totalSpent |-> e1.totalSpent[id],
                         cost |-> getCost(e1, id), canAfford |-> canAfford(e1, id),
                         unlocked |-> id \in e1.unlockedProducers]],
       bestValueProducerId |-> e1.bestValueProducerId,
       autoBuyEnabled |-> e1.autoBuyEnabled,
       autoBuySpeedLevel |-> e1.autoBuySpeedLevel,
       autoBuySpeedUpgradeCost |-> getAutoBuySpeedUpgradeCost(e1),
       canAffordAutoBuySpeedUpgrade |-> canAffordAutoBuySpeedUpgrade(e1),
       autoBuyInterval |-> CeilDiv(getAutoBuyInterval(e1), 1000),
       timeUntilNextAutoBuy |-> getSecondsUntilNext(e1.autoBuyer, t),
       upgrades |-> getUpgrades(e1),
       typing |-> getUIState(e1.typing, t),
       clickPowerLevel |-> e1.clickPowerLevel,
       clickValue |-> getClickValue(e1),
       clickPowerUpgradeCost |-> getClickPowerUpgradeCost(e1),
       canAffordClickPowerUpgrade |-> canAffordClickPowerUpgrade(e1)]


(***************************************************************************)
(* Inputs                                                                  *)
(***************************************************************************)
\* Snapshots found in storage at start-up, written by an earlier session.
\* SeedRich: a long game, three cloud orchestrators (15000 + 17400 + 20184).
SeedRich ==
  [resources |-> 30000 * Milli,
   producers |-> [id \in ProducerIds |->
                    IF id = "cloudOrchestrator"
                    THEN [quantity |-> 3, totalSpent |-> 52584]
                    ELSE [quantity |-> 0, totalSpent |-> 0]],
   lastUpdate |-> StartTime,
   autoBuyEnabled |-> FALSE,
   autoBuySpeedLevel |-> 0,
   unlockedProducers |-> ProducerIds,
   purchasedUpgrades |-> {"autoBuy", "challenges"},
   clickPowerLevel |-> 0,
   challengesEnabled |-> TRUE]

\* SeedAuto: auto-buy bought and switched on, nothing affordable yet.
SeedAuto ==
  [resources |-> 100 * Milli,
   producers |-> [id \in ProducerIds |-> [quantity |-> 0, totalSpent |-> 0]],
   lastUpdate |-> StartTime,
   autoBuyEnabled |-> TRUE,
   autoBuySpeedLevel |-> 0,
   unlockedProducers |-> {MANUAL_ID, "scriptRunner"},
   purchasedUpgrades |-> {"autoBuy"},
   clickPowerLevel |-> 0,
   challengesEnabled |-> TRUE]

\* SeedLegacy: a partial snapshot of the old format with its unlock flag.
SeedLegacy == [resources |-> 700 * Milli, autoBuyUnlocked |-> TRUE]

SeedSnapshots == {SeedRich, SeedAuto, SeedLegacy}

\* SeedFast: a long game, one speed upgrade short of the cap.
SeedFast ==
  [resources |-> 2000000 * Milli,
   autoBuySpeedLevel |-> MAX_SPEED_LEVEL - 1,
   purchasedUpgrades |-> {"typing", "autoBuy"}]

\* SeedFunds: resources and nothing else.
SeedFunds == [resources |-> 30000 * Milli]

UpgradeSeeds == {SeedRich, SeedFast, SeedFunds}

ClockSteps == {1, 29999, 30000}

TypedChars == {"a", " ", "\n"}

\* The character the started challenge expects next, if any.
ExpectedChars(e) ==
  IF e.typing.challenge.active /\ e.typing.challenge.startedOnNewLine
  THEN {e.typing.challenge.snippet[e.typing.challenge.progress + 1]}
  ELSE {}

PurchaseIds == ProducerIds \cup {"unknown"}

WithinBounds(e) == \A id \in ProducerIds : e.quantity[id] <= MaxQuantity

(***************************************************************************)
(* History of the calls, kept beside the engine for the properties.        *)
(*   paid          upgrade ids bought since the last reset()               *)
(*   paidSinceLoad upgrade ids bought since the last reset() or load()     *)
(*   runChar, runLen  the last character passed to typeChar and how many   *)
(*                 typeChar calls in a row passed it                       *)
(*   recChar, recLen  the same, leaving out the newlines that handleChar   *)
(*                 consumed to start a challenge                           *)
(*   wordOk, wordLen, wordGain  the word being typed, when it began with   *)
(*                 an empty word, streak 0 and no challenge and has no     *)
(*                 character three times in a row: its length and what its *)
(*                 typeChar calls added to resources                       *)
(*   reached       producers whose unlock threshold the resources have met *)
(*                 on return of some call since the last reset() or load() *)
(***************************************************************************)
\* The producers with a positive unlockThreshold that e's resources meet.
ThresholdsMet(e) ==
  {id \in ProducerIds :
     /\ ProducerConfig[id].unlockThreshold > 0
     /\ e.resources >= ProducerConfig[id].unlockThreshold * Milli}

NewHist ==
  [paid |-> {}, paidSinceLoad |-> {}, runChar |-> "", runLen |-> 0,
   recChar |-> "", recLen |-> 0,
   wordOk |-> FALSE, wordLen |-> 0, wordGain |-> 0, reached |-> {},
   boughtAt |-> NoTime]

\* The history after the call op(arg) took the engine from e0 to e1.
Track(h, e0, e1, op, arg, ret) ==
  LET run   == IF op # "typeChar" THEN h.runLen
               ELSE IF arg = h.runChar THEN h.runLen + 1 ELSE 1
      eaten == /\ op = "typeChar"
               /\ e1.typing.challenge.startedOnNewLine
               /\ ~e0.typing.challenge.startedOnNewLine
      gain  == e1.resources - e0.resources
      fresh == /\ e0.typing.currentWordLength = 0
               /\ e0.typing.streakWords = 0
               /\ ~e0.typing.challenge.active
  IN  [paid |-> IF op = "reset" THEN {}
                ELSE IF op = "purchaseUpgrade" /\ ret THEN h.paid \cup {arg}
                ELSE h.paid,
       paidSinceLoad |-> IF op \in {"reset", "load"} THEN {}
                         ELSE IF op = "purchaseUpgrade" /\ ret THEN h.paidSinceLoad \cup {arg}
                         ELSE h.paidSinceLoad,
       runChar |-> IF op = "typeChar" THEN arg ELSE h.runChar,
       runLen |-> run,
       recChar |-> IF op = "typeChar" /\ ~eaten THEN arg ELSE h.recChar,
       recLen |-> IF op # "typeChar" \/ eaten THEN h.recLen
                  ELSE IF arg = h.recChar THEN h.recLen + 1 ELSE 1,
       wordOk |-> IF op = "typeChar"
                  THEN arg \notin WORD_BOUNDARIES /\ run < 3 /\ (fresh \/ h.wordOk)
                  ELSE h.wordOk /\ op # "triggerChallenge",
       wordLen |-> IF op # "typeChar" THEN h.wordLen
                   ELSE IF arg \in WORD_BOUNDARIES THEN 0
                   ELSE IF fresh THEN 1 ELSE h.wordLen + 1,
       wordGain |-> IF op # "typeChar" THEN h.wordGain
                    ELSE IF arg \in WORD_BOUNDARIES THEN 0
                    ELSE IF fresh THEN gain ELSE h.wordGain + gain,
       reached |-> (IF op \in {"reset", "load"} THEN {} ELSE h.reached)
                     \cup ThresholdsMet(e1),
       boughtAt |-> IF /\ op = "update"
                       /\ \E id \in ProducerIds : e1.quantity[id] > e0.quantity[id]
                    THEN e1.lastUpdate
                    ELSE h.boughtAt]

(***************************************************************************)
(* The state machine                                                       *)
(***************************************************************************)
Init ==
  /\ engine = NewEngine(StartTime)
  /\ now = StartTime
  /\ saved = <<>>
  /\ call = [op |-> "new", arg |-> "", ret |-> TRUE]
  /\ enabledAt = NoTime
  /\ hist = NewHist
  /\ steps = 0

\* One public operation, in a run of at most bound calls: the engine after it,
\* and what was called.
StepWithin(bound, e, op, arg, ret) ==
  /\ steps < bound
  /\ WithinBounds(e)
  /\ engine' = e
  /\ call' = [op |-> op, arg |-> arg, ret |-> ret]
  /\ enabledAt' = IF op = "toggleAutoBuy" /\ ~engine.autoBuyEnabled /\ e.autoBuyEnabled
                  THEN now
                  ELSE IF e.autoBuyEnabled THEN enabledAt ELSE NoTime
  /\ hist' = Track(hist, engine, e, op, arg, ret)
  /\ steps' = steps + 1

Step(e, op, arg, ret) == StepWithin(MaxSteps, e, op, arg, ret)

\* The clock moves on between two calls.
Advance ==
  \E d \in ClockSteps :
    /\ steps < MaxSteps
    /\ now' = now + d
    /\ call' = [op |-> "advance", arg |-> "", ret |-> TRUE]
    /\ steps' = steps + 1
    /\ UNCHANGED <<engine, saved, enabledAt, hist>>

Click == Step(click(engine), "click", "", TRUE) /\ UNCHANGED <<now, saved>>

CheatClick == Step(cheatClick(engine), "cheatClick", "", TRUE) /\ UNCHANGED <<now, saved>>

TypeChar ==
  \E char \in TypedChars \cup ExpectedChars(engine), i \in CatalogChoices :
    /\ Step(typeChar(engine, char, MINI_CHALLENGES[i], now), "typeChar", char, TRUE)
    /\ UNCHANGED <<now, saved>>

TriggerChallenge ==
  \E i \in CatalogChoices :
    LET r == triggerChallenge(engine.typing, MINI_CHALLENGES[i], now)
    IN  /\ Step([engine EXCEPT !.typing = r.ty], "triggerChallenge", "", r.ret)
        /\ UNCHANGED <<now, saved>>

PurchaseProducer ==
  \E id \in PurchaseIds :
    LET r == purchaseProducer(engine, id, now)
    IN  Step(r.e, "purchaseProducer", id, r.ret) /\ UNCHANGED <<now, saved>>

PurchaseUpgrade ==
  \E id \in UpgradeIds \cup {"unknown"} :
    LET r == purchaseUpgrade(engine, id)
    IN  Step(r.e, "purchaseUpgrade", id, r.ret) /\ UNCHANGED <<now, saved>>

PurchaseClickPowerUpgrade ==
  LET r == purchaseClickPowerUpgrade(engine)
  IN  Step(r.e, "purchaseClickPowerUpgrade", "", r.ret) /\ UNCHANGED <<now, saved>>

PurchaseAutoBuySpeedUpgrade ==
  LET r == purchaseAutoBuySpeedUpgrade(engine)
  IN  Step(r.e, "purchaseAutoBuySpeedUpgrade", "", r.ret) /\ UNCHANGED <<now, saved>>

ToggleAutoBuy ==
  Step(toggleAutoBuy(engine, now), "toggleAutoBuy", "", TRUE) /\ UNCHANGED <<now, saved>>

ToggleChallenges ==
  Step(toggleChallenges(engine), "toggleChallenges", "", TRUE) /\ UNCHANGED <<now, saved>>

Update == Step(update(engine, now), "update", "", TRUE) /\ UNCHANGED <<now, saved>>

GetState ==
  Step(calculateBestValue(engine, now), "getState", "", TRUE) /\ UNCHANGED <<now, saved>>

Save ==
  /\ Step(engine, "save", "", TRUE)
  /\ saved' = <<save(engine)>>
  /\ UNCHANGED now

Load ==
  \E s \in SeedSnapshots \cup {saved[i] : i \in 1..Len(saved)} :
    Step(load(engine, s), "load", "", TRUE) /\ UNCHANGED <<now, saved>>

Reset == Step(reset(engine, now), "reset", "", TRUE) /\ UNCHANGED <<now, saved>>

Next ==
  \/ Advance
  \/ Click
  \/ CheatClick
  \/ TypeChar
  \/ TriggerChallenge
  \/ PurchaseProducer
  \/ PurchaseUpgrade
  \/ PurchaseClickPowerUpgrade
  \/ PurchaseAutoBuySpeedUpgrade
  \/ ToggleAutoBuy
  \/ ToggleChallenges
  \/ Update
  \/ GetState
  \/ Save
  \/ Load
  \/ Reset

Spec == Init /\ [][Next]_vars

(***************************************************************************)
(* A typing session: the player has the challenges upgrade and only types, *)
(* triggers challenges, switches them on and off, and lets time pass.      *)
(***************************************************************************)
MaxTypingSteps == 6

TypingKeys == {"a", " ", "\n"}

ChallengeTimeout == 30000

\* One call of a warm-up: a key typed, or the challenge button pressed; def is
\* the catalog entry pickRandomChallenge returns if the call starts a challenge.
Key(char) == [op |-> "typeChar", arg |-> char, def |-> 1]

Trigger(i) == [op |-> "triggerChallenge", arg |-> "", def |-> i]

TypeText(text) == [i \in 1..Len(text) |-> Key(text[i])]

RECURSIVE TypeWords(_)
TypeWords(n) == IF n = 0 THEN <<>> ELSE <<Key("a"), Key(" ")>> \o TypeWords(n - 1)

\* The engine and the history after one call of a warm-up, made at StartTime.
PlayOne(st, k) ==
  LET e1 == IF k.op = "typeChar"
            THEN typeChar(st.e, k.arg, MINI_CHALLENGES[k.def], StartTime)
            ELSE [st.e EXCEPT !.typing =
                    triggerChallenge(st.e.typing, MINI_CHALLENGES[k.def], StartTime).ty]
  IN  [e |-> e1, h |-> Track(st.h, st.e, e1, k.op, k.arg, TRUE)]

\* A warm-up is played call by call, each result computed before the next call.
RECURSIVE Play(_, _)
Play(st, script) ==
  IF script = <<>> THEN st
  ELSE LET next == PlayOne(st, Head(script))
           rest == Tail(script)
       IN  IF next.e.resources >= 0 /\ Len(rest) >= 0 THEN Play(next, rest) ELSE next

\* What the player did before the session is observed: nothing; nine words;
\* all of 'git init' but its last letter in a manual challenge; eight words
\* while a manual 'docker build .' challenge waited, then all but its last key.
WarmUps ==
  { <<>>,
    TypeWords(9),
    <<Trigger(1), Key("\n")>> \o TypeText(<<"g","i","t"," ","i","n","i">>),
    <<Trigger(6)>> \o TypeWords(8) \o <<Key("\n")>>
      \o TypeText(<<"d","o","c","k","e","r"," ","b","u","i","l","d"," ">>) }

\* Sessions of a new game, before any upgrade has been bought.
PlainWarmUps == { TypeWords(8) }

\* The engines a typing session starts from, each with its opening script.
TypingStarts ==
  {<<load(NewEngine(StartTime), SeedRich), w>> : w \in WarmUps}
    \cup {<<NewEngine(StartTime), w>> : w \in PlainWarmUps}

TypingInit ==
  /\ \E start \in TypingStarts :
       LET st == Play([e |-> start[1], h |-> NewHist], start[2])
       IN  engine = st.e /\ hist = st.h
  /\ now = StartTime
  /\ saved = <<>>
  /\ call = [op |-> "load", arg |-> "", ret |-> TRUE]
  /\ enabledAt = NoTime
  /\ steps = 0

TypeKey ==
  \E char \in TypingKeys \cup ExpectedChars(engine), i \in CatalogChoices :
    /\ StepWithin(MaxTypingSteps, typeChar(engine, char, MINI_CHALLENGES[i], now),
                  "typeChar", char, TRUE)
    /\ UNCHANGED <<now, saved>>

ManualTrigger ==
  \E i \in CatalogChoices :
    LET r == triggerChallenge(engine.typing, MINI_CHALLENGES[i], now)
    IN  /\ StepWithin(MaxTypingSteps, [engine EXCEPT !.typing = r.ty],
                      "triggerChallenge", "", r.ret)
        /\ UNCHANGED <<now, saved>>

SwitchChallenges ==
  /\ StepWithin(MaxTypingSteps, toggleChallenges(engine), "toggleChallenges", "", TRUE)
  /\ UNCHANGED <<now, saved>>

Tick ==
  /\ steps < MaxTypingSteps
  /\ now' = now + ChallengeTimeout
  /\ call' = [op |-> "advance", arg |-> "", ret |-> TRUE]
  /\ steps' = steps + 1
  /\ UNCHANGED <<engine, saved, enabledAt, hist>>

TypingNext ==
  \/ TypeKey
  \/ ManualTrigger
  \/ SwitchChallenges
  \/ Tick

TypingSpec == TypingInit /\ [][TypingNext]_vars


(***************************************************************************)
(* An upgrade session: clicks and the three purchases of upgrades, from a  *)
(* game loaded at StartTime.                                               *)
(***************************************************************************)
MaxUpgradeSteps == 5

\* A new game, or one loaded from a seed.
UpgradeStarts ==
  {NewEngine(StartTime)} \cup {load(NewEngine(StartTime), s) : s \in UpgradeSeeds}

UpgradeInit ==
  /\ engine \in UpgradeStarts
  /\ now = StartTime
  /\ saved = <<>>
  /\ call = [op |-> "load", arg |-> "", ret |-> TRUE]
  /\ enabledAt = NoTime
  /\ hist = NewHist
  /\ steps = 0

ClickOnce ==
  /\ StepWithin(MaxUpgradeSteps, click(engine), "click", "", TRUE)
  /\ UNCHANGED <<now, saved>>

BuyUpgrade ==
  \E id \in UpgradeIds :
    LET r == purchaseUpgrade(engine, id)
    IN  /\ StepWithin(MaxUpgradeSteps, r.e, "purchaseUpgrade", id, r.ret)
        /\ UNCHANGED <<now, saved>>

BuyClickPower ==
  LET r == purchaseClickPowerUpgrade(engine)
  IN  /\ StepWithin(MaxUpgradeSteps, r.e, "purchaseClickPowerUpgrade", "", r.ret)
      /\ UNCHANGED <<now, saved>>

BuySpeed ==
  LET r == purchaseAutoBuySpeedUpgrade(engine)
  IN  /\ StepWithin(MaxUpgradeSteps, r.e, "purchaseAutoBuySpeedUpgrade", "", r.ret)
      /\ UNCHANGED <<now, saved>>

UpgradeNext ==
  \/ ClickOnce
  \/ BuyUpgrade
  \/ BuyClickPower
  \/ BuySpeed

UpgradeSpec == UpgradeInit /\ [][UpgradeNext]_vars


(***************************************************************************)
(* One load() of a partial snapshot: every subset of the snapshot fields,  *)
(* into a new game and into games already played.                          *)
(***************************************************************************)
SnapshotFields ==
  {"resources", "producers", "lastUpdate", "autoBuyEnabled", "autoBuySpeedLevel",
   "unlockedProducers", "purchasedUpgrades", "clickPowerLevel", "challengesEnabled",
   "autoBuyUnlocked", "typingUnlocked"}

\* A snapshot with every field, none equal to what a game loaded into holds,
\* and the two legacy flags as given.
FullSnapshot(autoBuyUnlocked, typingUnlocked) ==
  [resources |-> 1234 * Milli,
   producers |-> [id \in ProducerIds |->
                    IF id = "scriptRunner"
                    THEN [quantity |-> 2, totalSpent |-> 259]
                    ELSE [quantity |-> 0, totalSpent |-> 0]],
   lastUpdate |-> StartTime - 5000,
   autoBuyEnabled |-> TRUE,
   autoBuySpeedLevel |-> 3,
   unlockedProducers |-> {MANUAL_ID, "scriptRunner", "buildServer"},
   purchasedUpgrades |-> {"typing"},
   clickPowerLevel |-> 2,
   challengesEnabled |-> FALSE,
   autoBuyUnlocked |-> autoBuyUnlocked,
   typingUnlocked |-> typingUnlocked]

\* The snapshot holding only the fields F of s.
Partial(s, F) == [f \in F |-> s[f]]

PartialSnapshots ==
  {Partial(FullSnapshot(a, t), F) : a \in BOOLEAN, t \in BOOLEAN, F \in SUBSET SnapshotFields}

\* The games a snapshot is loaded into.
LoadStarts ==
  {NewEngine(StartTime),
   load(NewEngine(StartTime), SeedRich),
   purchaseProducer(load(NewEngine(StartTime), SeedRich), "ciPipeline", StartTime).e}

LoadInit ==
  /\ engine \in LoadStarts
  /\ now = StartTime
  /\ saved = <<>>
  /\ call = [op |-> "new", arg |-> "", ret |-> TRUE]
  /\ enabledAt = NoTime
  /\ hist = NewHist
  /\ steps = 0

LoadPartial ==
  \E s \in PartialSnapshots :
    /\ steps = 0
    /\ StepWithin(1, load(engine, s), "load", s, TRUE)
    /\ UNCHANGED <<now, saved>>

LoadNext == LoadPartial

LoadSpec == LoadInit /\ [][LoadNext]_vars


(***************************************************************************)
(* The wall clock.  update() and reset() read Date.now(), which the system *)
(* can set back between two calls, and load() takes the timestamp of the   *)
(* snapshot it is given, which another clock may have written.             *)
(***************************************************************************)
MaxClockSteps == 4

\* Date.now() moves by half a minute, forward or, when the clock is set, back.
WallClockSteps == {-30000, 30000}

\* SeedAhead: SeedRich saved under a clock one minute ahead of StartTime.
SeedAhead == [SeedRich EXCEPT !.lastUpdate = StartTime + 60000]

ClockInit ==
  /\ engine = NewEngine(StartTime)
  /\ now = StartTime
  /\ saved = <<>>
  /\ call = [op |-> "new", arg |-> "", ret |-> TRUE]
  /\ enabledAt = NoTime
  /\ hist = NewHist
  /\ steps = 0

ClockMoves ==
  \E d \in WallClockSteps :
    /\ steps < MaxClockSteps
    /\ now' = now + d
    /\ call' = [op |-> "advance", arg |-> "", ret |-> TRUE]
    /\ steps' = steps + 1
    /\ UNCHANGED <<engine, saved, enabledAt, hist>>

ClockUpdate ==
  /\ StepWithin(MaxClockSteps, update(engine, now), "update", "", TRUE)
  /\ UNCHANGED <<now, saved>>

ClockSave ==
  /\ StepWithin(MaxClockSteps, engine, "save", "", TRUE)
  /\ saved' = <<save(engine)>>
  /\ UNCHANGED now

ClockLoad ==
  \E s \in {SeedRich, SeedAhead} \cup {saved[i] : i \in 1..Len(saved)} :
    /\ StepWithin(MaxClockSteps, load(engine, s), "load", "", TRUE)
    /\ UNCHANGED <<now, saved>>

ClockReset ==
  /\ StepWithin(MaxClockSteps, reset(engine, now), "reset", "", TRUE)
  /\ UNCHANGED <<now, saved>>

ClockNext ==
  \/ ClockMoves
  \/ ClockUpdate
  \/ ClockSave
  \/ ClockLoad
  \/ ClockReset

ClockSpec == ClockInit /\ [][ClockNext]_vars


(***************************************************************************)
(* Properties                                                              *)
(***************************************************************************)
IsCall(op) == call'.op = op

\* C1: a purchaseProducer(id) call that returns false (unknown id, cost not
\* positive, resources below the cost) leaves resources and every producer's
\* quantity and totalSpent as they were.
C1_FailedPurchaseChangesNothing ==
  [][(IsCall("purchaseProducer") /\ ~call'.ret)
       => /\ engine'.resources = engine.resources
          /\ engine'.quantity = engine.quantity
          /\ engine'.totalSpent = engine.totalSpent]_vars

\* A purchase of a real producer refused for lack of resources, with some in hand.
C1_Witness ==
  /\ call.op = "purchaseProducer" /\ ~call.ret
  /\ call.arg = "buildServer"
  /\ engine.resources > 0
  /\ engine.resources < getCost(engine, "buildServer") * Milli

\* C2: purchaseProducer(id) called with cost(id) > 0 and resources >= cost(id)
\* returns true, takes exactly the cost from resources, adds 1 to that
\* producer's quantity and the cost to its totalSpent, and leaves every other
\* producer alone; the script runner costs 120 at quantity 0 and 139 at 1.
C2_SuccessfulPurchase ==
  [][\A id \in ProducerIds :
       (/\ IsCall("purchaseProducer") /\ call'.arg = id
        /\ getCost(engine, id) > 0
        /\ engine.resources >= getCost(engine, id) * Milli)
       => /\ call'.ret
          /\ engine'.resources = engine.resources - getCost(engine, id) * Milli
          /\ engine'.quantity = [engine.quantity EXCEPT ![id] = @ + 1]
          /\ engine'.totalSpent = [engine.totalSpent EXCEPT ![id] = @ + getCost(engine, id)]
          /\ (id = "scriptRunner" /\ engine.quantity[id] = 0 => getCost(engine, id) = 120)
          /\ (id = "scriptRunner" /\ engine.quantity[id] = 1 => getCost(engine, id) = 139)]_vars

\* The second script runner has just been bought: 120, then 139.
C2_Witness ==
  /\ call.op = "purchaseProducer" /\ call.ret /\ call.arg = "scriptRunner"
  /\ engine.quantity["scriptRunner"] = 2
  /\ engine.totalSpent["scriptRunner"] = 259


(***************************************************************************)
(* Auto-buy                                                                *)
(***************************************************************************)
\* The non-manual producers whose current cost the balance of e covers.
AffordableSet(e) ==
  {id \in ProducerIds \ {MANUAL_ID} : CostAt(id, e.quantity[id]) * Milli <= e.resources}

OrderIndex(id) == CHOOSE i \in 1..Len(ProducerOrder) : ProducerOrder[i] = id

\* cost(p) / rate(p) compared with cost(b) / rate(b), on the current costs.
RatioCmp(e, p, b) ==
  CostAt(p, e.quantity[p]) * ProducerConfig[b].productionRate
    - CostAt(b, e.quantity[b]) * ProducerConfig[p].productionRate

\* b has the smallest cost / productionRate in S, and is the first such in order.
IsBestIn(e, S, b) ==
  /\ b \in S
  /\ \A p \in S : /\ RatioCmp(e, p, b) >= 0
                  /\ (RatioCmp(e, p, b) = 0 => OrderIndex(b) <= OrderIndex(p))

\* An update() that finds auto-buy enabled and the interval elapsed.
AutoBuyCycle ==
  /\ IsCall("update")
  /\ engine.autoBuyEnabled
  /\ now - engine.autoBuyer.lastBuy >= getAutoBuyInterval(engine)

\* C3 (as claimed): after toggleAutoBuy() has switched auto-buy on at time t,
\* no update() buys anything before t + interval.
C3_NoPurchaseBeforeFullInterval ==
  [][(/\ IsCall("update")
      /\ enabledAt # NoTime
      /\ now < enabledAt + getAutoBuyInterval(engine))
       => engine'.quantity = engine.quantity]_vars

\* C4 (as claimed): an elapsed auto-buy cycle that finds nothing affordable
\* sets the last-purchase timestamp to the time of that update().
C4_EmptyCycleStampsTime ==
  [][(AutoBuyCycle /\ AffordableSet(Produce(engine, now)) = {})
       => engine'.autoBuyer.lastBuy = now]_vars

\* C4 (amended): an elapsed auto-buy cycle that finds nothing affordable buys
\* nothing and leaves the last-purchase timestamp as it was, and an elapsed
\* cycle that finds a producer affordable buys one and stamps the time: the
\* first update() at which a producer is affordable buys it.
C4_EmptyCycleKeepsTime ==
  [][/\ (AutoBuyCycle /\ AffordableSet(Produce(engine, now)) = {})
          => /\ engine'.autoBuyer.lastBuy = engine.autoBuyer.lastBuy
             /\ engine'.quantity = engine.quantity
             /\ engine'.resources = Produce(engine, now).resources
     /\ (AutoBuyCycle /\ AffordableSet(Produce(engine, now)) # {})
          => /\ engine'.autoBuyer.lastBuy = now
             /\ engine'.quantity # engine.quantity]_vars

\* An update() has just run an elapsed cycle with nothing affordable: the
\* interval is still elapsed after it.
C4_Witness ==
  /\ call.op = "update"
  /\ engine.autoBuyEnabled /\ engine.autoBuyer.enabled
  /\ now - engine.autoBuyer.lastBuy >= getIntervalMs(engine.autoBuyer)
  /\ AffordableSet(engine) = {}
  /\ engine.resources > 0

\* C5: when auto-buy is enabled, the interval has elapsed and, once this
\* update's passive production is added, some non-manual producer has cost <=
\* resources, update() buys exactly one unit of the affordable producer with the
\* smallest current cost / productionRate (first in order on ties) at its
\* current cost, and buys nothing else.
C5_AutoBuyPicksBestAffordable ==
  [][(AutoBuyCycle /\ AffordableSet(Produce(engine, now)) # {})
       => LET P == Produce(engine, now)
          IN  \E b \in ProducerIds :
                /\ IsBestIn(P, AffordableSet(P), b)
                /\ engine'.quantity = [engine.quantity EXCEPT ![b] = @ + 1]
                /\ engine'.totalSpent =
                     [engine.totalSpent EXCEPT ![b] = @ + CostAt(b, engine.quantity[b])]
                /\ engine'.resources = P.resources - CostAt(b, engine.quantity[b]) * Milli]_vars

\* An automatic purchase has just been made with two producers affordable,
\* and the one bought is not the first of them in order.
C5_Witness ==
  /\ call.op = "update"
  /\ engine.autoBuyer.lastBuy = now /\ now > StartTime
  /\ engine.quantity["buildServer"] = 1
  /\ engine.quantity["scriptRunner"] = 0

(***************************************************************************)
(* Best value                                                              *)
(***************************************************************************)
BestValueSet == {id \in ProducerIds \ {MANUAL_ID} : ProducerConfig[id].productionRate > 0}

\* C6 (as claimed): right after a successful purchase, manual or automatic,
\* getState() recommends the producer with the smallest current cost /
\* productionRate at the new quantities, whatever the time since the last
\* recomputation.
C6_BestValueFreshAfterPurchase ==
  [][(\/ IsCall("purchaseProducer") /\ call'.ret
      \/ IsCall("update") /\ engine'.quantity # engine.quantity)
       => IsBestIn(engine', BestValueSet, getState(engine', now').bestValueProducerId)]_vars

(***************************************************************************)
(* Challenge timeout in update                                             *)
(***************************************************************************)
\* C7 (as claimed): an update() made while a challenge is active and past its
\* time limit fails it: no challenge is active afterwards, the failed count is
\* one higher and the streak is 0.
C7_UpdateFailsTimedOutChallenge ==
  [][(/\ IsCall("update")
      /\ engine.typing.challenge.active
      /\ now - engine.typing.challenge.startTime > engine.typing.challenge.timeLimitMs)
       => /\ ~engine'.typing.challenge.active
          /\ engine'.typing.failedChallenges = engine.typing.failedChallenges + 1
          /\ engine'.typing.streakWords = 0]_vars

(***************************************************************************)
(* Reset, save and load                                                    *)
(***************************************************************************)
\* The components of the engine that the reset contract lists.
MutableState(e) ==
  [resources |-> e.resources, quantity |-> e.quantity, totalSpent |-> e.totalSpent,
   productionRate |-> e.productionRate,
   autoBuyEnabled |-> e.autoBuyEnabled, autoBuySpeedLevel |-> e.autoBuySpeedLevel,
   clickPowerLevel |-> e.clickPowerLevel,
   unlockedProducers |-> e.unlockedProducers,
   purchasedUpgrades |-> e.purchasedUpgrades,
   challengesEnabled |-> e.challengesEnabled,
   wordsTyped |-> e.typing.wordsTyped, streakWords |-> e.typing.streakWords,
   currentWordLength |-> e.typing.currentWordLength,
   consecutiveSameCharCount |-> e.typing.consecutiveSameCharCount,
   challenge |-> e.typing.challenge,
   completedChallenges |-> e.typing.completedChallenges,
   failedChallenges |-> e.typing.failedChallenges]

\* C8 (as claimed): after reset() every mutable component equals its value in
\* a freshly constructed engine.
C8_ResetRestoresFreshState ==
  [][IsCall("reset") => MutableState(engine') = MutableState(NewEngine(now))]_vars

\* A new engine that loads the snapshot save() returns in the current state.
Reloaded == load(NewEngine(now), save(engine))

\* C9 (as claimed): in every reachable state, a fresh engine that loads the
\* saved snapshot reports the same getState() as the running engine.
C9_RoundTripWholeView == getState(Reloaded, now) = getState(engine, now)

\* The fields of the view that the snapshot carries or that follow from them.
PersistedView(v) ==
  [resources |-> v.resources, productionRate |-> v.productionRate,
   producers |-> v.producers,
   autoBuyEnabled |-> v.autoBuyEnabled, autoBuySpeedLevel |-> v.autoBuySpeedLevel,
   autoBuySpeedUpgradeCost |-> v.autoBuySpeedUpgradeCost,
   canAffordAutoBuySpeedUpgrade |-> v.canAffordAutoBuySpeedUpgrade,
   autoBuyInterval |-> v.autoBuyInterval,
   upgrades |-> v.upgrades,
   clickPowerLevel |-> v.clickPowerLevel, clickValue |-> v.clickValue,
   clickPowerUpgradeCost |-> v.clickPowerUpgradeCost,
   canAffordClickPowerUpgrade |-> v.canAffordClickPowerUpgrade,
   challengesEnabled |-> v.typing.challengesEnabled]

\* C9 (amended): in every reachable state, a fresh engine that loads the saved
\* snapshot reports the same resources, producers (quantity, totalSpent, cost,
\* affordability, visibility), production rate, auto-buy enabled flag, speed
\* level, speed-upgrade cost and affordability, interval, upgrades, click-power
\* fields and challenges-enabled flag as the running engine.
C9_RoundTripPersistedView ==
  PersistedView(getState(Reloaded, now)) = PersistedView(getState(engine, now))

\* save() has just been called in a state with producers owned, money spent,
\* an upgrade bought and producers unlocked.
C9_Witness ==
  /\ call.op = "save" /\ saved = <<save(engine)>>
  /\ \E id \in ProducerIds : engine.quantity[id] > 0 /\ engine.totalSpent[id] > 0
  /\ engine.purchasedUpgrades # {}
  /\ engine.unlockedProducers # InitialUnlockedProducers

\* C10 (as claimed): no operation other than reset removes an id from the
\* visible-producer set or from the purchased-upgrade set.
C10_SetsOnlyGrow ==
  [][~IsCall("reset")
       => /\ engine.unlockedProducers \subseteq engine'.unlockedProducers
          /\ engine.purchasedUpgrades \subseteq engine'.purchasedUpgrades]_vars

\* C10 (amended): no operation other than reset and load removes an id from
\* the visible-producer set or from the purchased-upgrade set; load replaces
\* each set by the list in the snapshot when the snapshot has one.
C10_SetsOnlyGrowExceptLoad ==
  [][/\ ~(IsCall("reset") \/ IsCall("load"))
          => /\ engine.unlockedProducers \subseteq engine'.unlockedProducers
             /\ engine.purchasedUpgrades \subseteq engine'.purchasedUpgrades
     /\ IsCall("load")
          => \E s \in SeedSnapshots \cup {saved[i] : i \in 1..Len(saved)} :
               /\ engine' = load(engine, s)
               /\ Has(s, "unlockedProducers")
                    => engine'.unlockedProducers = s.unlockedProducers
               /\ ~Has(s, "unlockedProducers")
                    => engine'.unlockedProducers = engine.unlockedProducers
               /\ ~Has(s, "purchasedUpgrades")
                    => engine.purchasedUpgrades \subseteq engine'.purchasedUpgrades]_vars

\* An update() has run after producers were unlocked and the balance then fell
\* below a threshold it had reached: the producer is still visible.
C10_Witness ==
  /\ call.op = "update"
  /\ "buildServer" \in engine.unlockedProducers
  /\ engine.resources < ProducerConfig["buildServer"].unlockThreshold * Milli
  /\ engine.purchasedUpgrades # {}


\* The rules of purchaseUpgrade, with alreadyPaid the ids counted as paid for.
UpgradePurchaseRule(alreadyPaid) ==
  IsCall("purchaseUpgrade") =>
    LET id == call'.arg
    IN  /\ call'.ret =>
              /\ id \in UpgradeIds
              /\ id \notin engine.purchasedUpgrades
              /\ engine.resources >= UPGRADES[id] * Milli
              /\ engine'.resources = engine.resources - UPGRADES[id] * Milli
              /\ engine'.purchasedUpgrades = engine.purchasedUpgrades \cup {id}
              /\ id \notin alreadyPaid
        /\ ~call'.ret => engine'.resources = engine.resources

\* C11 as stated: purchaseUpgrade(id) succeeds only for a defined upgrade not
\* yet purchased with resources >= its cost, then takes exactly the cost and
\* adds the id; a later purchase of the same id returns false and deducts
\* nothing, so no upgrade is paid for twice between two resets.
C11_UpgradePaidOncePerReset == [][UpgradePurchaseRule(hist.paid)]_vars

\* C11 amended: the same, except that no upgrade is paid for twice between
\* two calls of reset() or load(): load() replaces the purchased set by the
\* snapshot's list, after which a dropped upgrade can be bought again.
C11_UpgradePaidOncePerLoad == [][UpgradePurchaseRule(hist.paidSinceLoad)]_vars

\* A second purchase of an upgrade bought earlier is refused although its cost
\* is in hand.
C11_Witness ==
  /\ call.op = "purchaseUpgrade" /\ ~call.ret
  /\ call.arg \in hist.paidSinceLoad
  /\ engine.resources >= UPGRADES[call.arg] * Milli

\* The operations whose signature returns a boolean; the others return nothing.
ReturnsBoolean(op) ==
  op \in {"purchaseProducer", "purchaseUpgrade", "purchaseClickPowerUpgrade",
          "purchaseAutoBuySpeedUpgrade", "triggerChallenge"}

\* The precondition of the call op(arg) does not hold in engine state e.
PreconditionFails(e, op, arg) ==
  \/ /\ op = "purchaseUpgrade"
     /\ \/ arg \notin UpgradeIds
        \/ arg \in e.purchasedUpgrades
        \/ e.resources < UPGRADES[arg] * Milli
  \/ /\ op = "purchaseClickPowerUpgrade"
     /\ ~CanPay(e, getClickPowerUpgradeCost(e))
  \/ /\ op = "purchaseAutoBuySpeedUpgrade"
     /\ \/ "autoBuy" \notin e.purchasedUpgrades
        \/ ~CanPay(e, getAutoBuySpeedUpgradeCost(e))
        \/ e.autoBuySpeedLevel >= MAX_SPEED_LEVEL
  \/ op = "toggleAutoBuy" /\ "autoBuy" \notin e.purchasedUpgrades
  \/ op = "toggleChallenges" /\ "challenges" \notin e.purchasedUpgrades

StreakMultiplierAt(n) == Min(maxStreakMultiplier, StreakDen + n)

\* The call being made is typeChar of a non-boundary / a boundary character.
TypesLetter == IsCall("typeChar") /\ call'.arg \notin WORD_BOUNDARIES

TypesBoundary == IsCall("typeChar") /\ call'.arg \in WORD_BOUNDARIES

\* C13: a word of n >= 1 non-boundary characters, none three times in a row,
\* begun with streak 0, an empty current word and no active challenge, then
\* one boundary character: the calls add n * baseCharValue * 1 plus
\* n * baseCharValue * wordBonusMultiplier * 1 to resources in all, and
\* words-typed goes up by 1.
C13_WordRewardAtStreakZero ==
  [][(TypesBoundary /\ hist.wordOk /\ hist.wordLen >= 1)
       => /\ hist.wordGain + (engine'.resources - engine.resources)
               = hist.wordLen * baseCharValue
                 + hist.wordLen * baseCharValue * wordBonusMultiplier
          /\ engine'.typing.wordsTyped = engine.typing.wordsTyped + 1]_vars

\* The reward of the active challenge at the streak held now.
ChallengeReward ==
  (Len(engine.typing.challenge.snippet) * baseCharValue * challengeRewardMultiplier
     * StreakMultiplierAt(engine.typing.streakWords)) \div StreakDen

\* What a typeChar call added to resources beyond the reward of a challenge
\* it completed.
KeystrokeGain ==
  (engine'.resources - engine.resources)
    - IF engine'.typing.completedChallenges > engine.typing.completedChallenges
      THEN ChallengeReward ELSE 0

\* The character reward at the streak the call leaves behind.
CharacterReward ==
  (baseCharValue * StreakMultiplierAt(engine'.typing.streakWords)) \div StreakDen

\* C14 as stated: in a run of identical non-boundary characters passed to
\* typeChar, the first two occurrences earn the character reward and the later
\* ones earn none, and every occurrence adds one to the current word length.
C14_RewardForFirstTwoOfRun ==
  [][TypesLetter
       => /\ KeystrokeGain = IF hist'.runLen <= 2 THEN CharacterReward ELSE 0
          /\ engine'.typing.currentWordLength = engine.typing.currentWordLength + 1]_vars

\* C14 amended: the run is counted over the characters handleChar records:
\* the newline that starts a waiting challenge is consumed without being
\* recorded, so identical characters typed just before and just after it
\* belong to one run.  The first two occurrences of such a run earn the
\* character reward, the later ones none, and every occurrence adds one to
\* the current word length.
C14_RewardForFirstTwoRecorded ==
  [][TypesLetter
       => /\ KeystrokeGain = IF hist'.recLen <= 2 THEN CharacterReward ELSE 0
          /\ engine'.typing.currentWordLength = engine.typing.currentWordLength + 1]_vars

\* The same letter typed five times in a row: the word holds all five.
C14_Witness ==
  /\ call.op = "typeChar" /\ call.arg = "a"
  /\ hist.runLen = 5 /\ hist.recLen = 5
  /\ engine.typing.currentWordLength >= 5


(***************************************************************************)
(* Challenges                                                              *)
(***************************************************************************)
Challenge == engine.typing.challenge

TimedOut == now - Challenge.startTime > Challenge.timeLimitMs

\* A challenge is active, in time, and waits for / has had its starting newline.
Waiting == Challenge.active /\ ~TimedOut /\ ~Challenge.startedOnNewLine

Started == Challenge.active /\ ~TimedOut /\ Challenge.startedOnNewLine

ExpectedChar == Challenge.snippet[Challenge.progress + 1]

\* The call leaves a challenge just installed from one catalog entry.
InstallsChallenge ==
  /\ Challenge'.active
  /\ Challenge'.progress = 0
  /\ ~Challenge'.startedOnNewLine
  /\ Challenge'.startTime = now
  /\ \E i \in 1..Len(MINI_CHALLENGES) :
       /\ Challenge'.id = MINI_CHALLENGES[i].id
       /\ Challenge'.snippet = MINI_CHALLENGES[i].snippet
       /\ Challenge'.timeLimitMs = MINI_CHALLENGES[i].timeLimitSeconds * 1000

\* The key typed is a boundary after which the next automatic challenge is due.
AutoStartDue ==
  /\ TypesBoundary
  /\ engine.typing.challengesEnabled
  /\ engine'.typing.wordsTyped > 0
  /\ engine'.typing.wordsTyped - engine.typing.lastChallengeWords >= wordsPerChallenge

\* C15: while a challenge is active, in time and awaiting its start, typeChar
\* of a character other than newline (the expected one or not) leaves it as
\* it is, awaiting start at progress 0, and does not count a failure;
\* typeChar of a newline makes it started, progress still 0.
C15_OnlyNewlineStartsChallenge ==
  [][(IsCall("typeChar") /\ Waiting)
       => /\ Challenge.progress = 0
          /\ engine'.typing.failedChallenges = engine.typing.failedChallenges
          /\ Challenge' = IF call'.arg = "\n"
                          THEN [Challenge EXCEPT !.startedOnNewLine = TRUE]
                          ELSE Challenge]_vars

\* A word was typed while the challenge waited, and a newline then started it.
C15_Witness ==
  /\ call.op = "typeChar" /\ call.arg = "\n"
  /\ Challenge.active /\ Challenge.startedOnNewLine /\ Challenge.progress = 0
  /\ engine.typing.wordsTyped > engine.typing.lastChallengeWords
  /\ engine.typing.failedChallenges = 0

\* C16: for a started challenge, in time, at progress p: typeChar(c) moves
\* progress to p + 1 exactly when c is the character at position p of the
\* text, completing the challenge exactly when p + 1 is the text length; a
\* newline or any other character fails it.
C16_StartedChallengeStep ==
  [][(IsCall("typeChar") /\ Started)
       => IF call'.arg = ExpectedChar
          THEN /\ engine'.typing.failedChallenges = engine.typing.failedChallenges
               /\ IF Challenge.progress + 1 = Len(Challenge.snippet)
                  THEN /\ engine'.typing.completedChallenges
                            = engine.typing.completedChallenges + 1
                       /\ Challenge'.active => InstallsChallenge
                  ELSE /\ engine'.typing.completedChallenges
                            = engine.typing.completedChallenges
                       /\ Challenge' = [Challenge EXCEPT !.progress = @ + 1]
          ELSE /\ engine'.typing.failedChallenges = engine.typing.failedChallenges + 1
               /\ engine'.typing.completedChallenges = engine.typing.completedChallenges
               /\ Challenge'.active => InstallsChallenge]_vars

\* The second character of the text has just been matched.
C16_Witness ==
  /\ call.op = "typeChar"
  /\ Challenge.active /\ Challenge.startedOnNewLine
  /\ Challenge.progress = 2
  /\ call.arg = Challenge.snippet[2]
  /\ engine.typing.failedChallenges = 0

\* The typeChar call being made fails the active challenge.
FailsChallenge ==
  /\ IsCall("typeChar")
  /\ Challenge.active
  /\ TimedOut \/ (Challenge.startedOnNewLine /\ call'.arg # ExpectedChar)

\* C17 as stated: when a typeChar call fails the active challenge (wrong
\* character, newline after the start, timeout), then on return the failed
\* count is one higher, the completed count is unchanged, the streak is 0 and
\* no challenge is active.
C17_FailureLeavesStreakZero ==
  [][FailsChallenge
       => /\ engine'.typing.failedChallenges = engine.typing.failedChallenges + 1
          /\ engine'.typing.completedChallenges = engine.typing.completedChallenges
          /\ engine'.typing.streakWords = 0
          /\ ~Challenge'.active]_vars

\* C17 amended: the failure raises the failed count by one, leaves the
\* completed count, sets the streak to 0 and clears the challenge; the key is
\* then processed as an ordinary character.  On return the streak is 0, or 1
\* when the key is a boundary that completes a non-empty word, and no
\* challenge is active unless that boundary starts the next automatic one.
C17_FailureThenOrdinaryKey ==
  [][FailsChallenge
       => /\ engine'.typing.failedChallenges = engine.typing.failedChallenges + 1
          /\ engine'.typing.completedChallenges = engine.typing.completedChallenges
          /\ engine'.typing.streakWords
               = IF TypesBoundary /\ engine.typing.currentWordLength > 0 THEN 1 ELSE 0
          /\ Challenge'.active <=> AutoStartDue
          /\ Challenge'.active => InstallsChallenge]_vars

\* A wrong letter has just failed a challenge and wiped a streak of nine words.
C17_Witness ==
  /\ call.op = "typeChar" /\ call.arg \notin WORD_BOUNDARIES
  /\ engine.typing.failedChallenges = 1
  /\ engine.typing.wordsTyped >= 9
  /\ engine.typing.streakWords = 0
  /\ ~Challenge.active

\* The typeChar call being made matches the last character of the text.
CompletesChallenge ==
  /\ IsCall("typeChar")
  /\ Started
  /\ call'.arg = ExpectedChar
  /\ Challenge.progress + 1 = Len(Challenge.snippet)

\* C18 as stated: the call that completes a challenge adds to resources the
\* challenge reward (text length * baseCharValue * challengeRewardMultiplier
\* * the multiplier of the streak held before), raises the completed count
\* by 1, leaves the failed count, raises the streak by 1 and clears the
\* challenge.
C18_CompletionPaysChallengeReward ==
  [][CompletesChallenge
       => /\ engine'.resources = engine.resources + ChallengeReward
          /\ engine'.typing.completedChallenges = engine.typing.completedChallenges + 1
          /\ engine'.typing.failedChallenges = engine.typing.failedChallenges
          /\ engine'.typing.streakWords = engine.typing.streakWords + 1
          /\ ~Challenge'.active]_vars

\* C18 amended: the completion adds the challenge reward at the streak held
\* before, raises the completed count and the streak by 1, leaves the failed
\* count and clears the challenge; the key is then processed as an ordinary
\* character: a letter not damped earns its character reward at the raised
\* streak, and a closing boundary starts the next automatic challenge when
\* one is due.
C18_CompletionThenOrdinaryKey ==
  [][CompletesChallenge
       => /\ engine'.resources
               = engine.resources + ChallengeReward
                 + IF TypesLetter /\ hist'.recLen <= 2 THEN CharacterReward ELSE 0
          /\ engine'.typing.completedChallenges = engine.typing.completedChallenges + 1
          /\ engine'.typing.failedChallenges = engine.typing.failedChallenges
          /\ engine'.typing.streakWords = engine.typing.streakWords + 1
          /\ Challenge'.active <=> AutoStartDue
          /\ Challenge'.active => InstallsChallenge]_vars

\* The last letter of 'git init' has just completed the challenge.
C18_Witness ==
  /\ call.op = "typeChar" /\ call.arg = "t"
  /\ engine.typing.completedChallenges = 1
  /\ engine.typing.failedChallenges = 0
  /\ ~Challenge.active

\* C19: a manual trigger returns true exactly when no challenge is active,
\* and then installs a new one (awaiting start, progress 0, started now, text
\* and time limit of one catalog entry) and touches neither the counters nor
\* resources; with a challenge active it returns false and changes nothing.
C19_ManualTrigger ==
  [][IsCall("triggerChallenge")
       => /\ call'.ret <=> ~Challenge.active
          /\ call'.ret
               => /\ InstallsChallenge
                  /\ engine'.resources = engine.resources
                  /\ engine'.typing.completedChallenges = engine.typing.completedChallenges
                  /\ engine'.typing.failedChallenges = engine.typing.failedChallenges
                  /\ engine'.typing.wordsTyped = engine.typing.wordsTyped
                  /\ engine'.typing.streakWords = engine.typing.streakWords
          /\ ~call'.ret => engine' = engine]_vars

\* A trigger refused while a started challenge is under way.
C19_Witness ==
  /\ call.op = "triggerChallenge" /\ ~call.ret
  /\ Challenge.active /\ Challenge.startedOnNewLine
  /\ Challenge.progress >= 1

\* C20: while challenges are switched off no typeChar call starts a challenge,
\* however many words are typed; a manual trigger still starts one when none
\* is active; and switching the flag leaves an active challenge as it is.
C20_SwitchStopsAutomaticOnly ==
  [][/\ (IsCall("typeChar") /\ ~engine.challengesEnabled)
          => (Challenge'.active
                => /\ Challenge.active
                   /\ engine'.typing.failedChallenges = engine.typing.failedChallenges
                   /\ engine'.typing.completedChallenges = engine.typing.completedChallenges)
     /\ (IsCall("triggerChallenge") /\ ~engine.challengesEnabled /\ ~Challenge.active)
          => (call'.ret /\ InstallsChallenge)
     /\ IsCall("toggleChallenges") => Challenge' = Challenge]_vars

\* With challenges switched off a tenth word since the last challenge has been
\* typed and no challenge started.
C20_Witness ==
  /\ call.op = "typeChar" /\ call.arg \in WORD_BOUNDARIES
  /\ ~engine.challengesEnabled
  /\ engine.typing.wordsTyped - engine.typing.lastChallengeWords >= wordsPerChallenge
  /\ ~Challenge.active


\* The typeChar call being made starts a challenge by itself.
AutoStarts ==
  /\ IsCall("typeChar")
  /\ Challenge'.active
  /\ \/ ~Challenge.active
     \/ engine'.typing.failedChallenges # engine.typing.failedChallenges
     \/ engine'.typing.completedChallenges # engine.typing.completedChallenges

\* Words completed since the last challenge was installed, by hand or not.
WordsSinceChallenge == engine.typing.wordsTyped - engine.typing.lastChallengeWords

\* C21: with challenges enabled and no challenge active, the typeChar call
\* that completes the tenth word since the last trigger starts a challenge;
\* and no typeChar call starts one while fewer than ten words have been
\* completed since the last trigger or no word has ever been completed.
C21_AutomaticChallengeAtTenWords ==
  [][/\ ( /\ IsCall("typeChar")
          /\ engine.challengesEnabled /\ ~Challenge.active
          /\ engine'.typing.wordsTyped = engine.typing.wordsTyped + 1
          /\ WordsSinceChallenge + 1 = wordsPerChallenge )
          => (AutoStarts /\ InstallsChallenge)
     /\ AutoStarts
          => /\ engine'.typing.wordsTyped - engine.typing.lastChallengeWords
                  >= wordsPerChallenge
             /\ engine'.typing.wordsTyped > 0]_vars

\* The tenth word has just been completed and a challenge waits for its start.
C21_Witness ==
  /\ call.op = "typeChar" /\ call.arg \in WORD_BOUNDARIES
  /\ engine.typing.wordsTyped = wordsPerChallenge
  /\ engine.typing.lastChallengeWords = wordsPerChallenge
  /\ Challenge.active /\ ~Challenge.startedOnNewLine
  /\ engine.typing.failedChallenges = 0 /\ engine.typing.completedChallenges = 0

\* C22: the challenges feature is gated by its upgrade: while the challenges
\* upgrade has not been purchased, no typeChar call starts a challenge by
\* itself.
C22_NoAutomaticChallengeWithoutUpgrade ==
  [][(IsCall("typeChar") /\ "challenges" \notin engine.purchasedUpgrades)
       => ~AutoStarts]_vars

\* A challenge installed by typing alone in a game that never bought the upgrade.
C22_StartedWithoutUpgrade ==
  /\ call.op = "typeChar"
  /\ "challenges" \notin engine.purchasedUpgrades
  /\ Challenge.active /\ ~Challenge.startedOnNewLine
  /\ engine.typing.lastChallengeWords = wordsPerChallenge

\* The rewards a key can earn at multiplier 1: none, the character reward,
\* the bonus of the word the key completes.
RewardsAtMultiplierOne ==
  {0, baseCharValue,
   engine.typing.currentWordLength * baseCharValue * wordBonusMultiplier}

\* C23: in every state the streak multiplier is min(maxStreakMultiplier,
\* 1 + streak * streakStep) of the current streak, hence between 1 and
\* maxStreakMultiplier (2.0); and it is 1 again in the first reward computed
\* after the streak was reset to 0: the reward the failing key itself earns
\* as an ordinary character is paid at multiplier 1.
C23_MultiplierOneAfterReset ==
  [][/\ getCurrentStreakMultiplier(engine'.typing)
          = StreakMultiplierAt(engine'.typing.streakWords)
     /\ getCurrentStreakMultiplier(engine'.typing) \in StreakDen..maxStreakMultiplier
     /\ FailsChallenge
          => (engine'.resources - engine.resources) \in RewardsAtMultiplierOne]_vars

\* After nine words (16650), a letter at streak 9 (725) and a manual
\* challenge, a newline inside the started challenge failed it, wiped the
\* streak and then completed the one-letter word, paid 1050 and not 1000.
C23_WordPaidAboveOneAfterReset ==
  /\ call.op = "typeChar" /\ call.arg = "\n"
  /\ engine.typing.failedChallenges = 1
  /\ engine.typing.streakWords = 1
  /\ engine.typing.wordsTyped = wordsPerChallenge
  /\ engine.resources = SeedRich.resources + 16650 + 725 + 1050

\* C27: a producer with a positive unlockThreshold is in the visible set
\* after the next update() once resources >= its threshold held in some
\* state, whatever calls (purchases included) came between.
C27_VisibleOnceThresholdWasMet ==
  [][IsCall("update")
       => (hist.reached \cup ThresholdsMet(engine)) \subseteq engine'.unlockedProducers]_vars

\* update() has returned while a producer whose threshold was met before the
\* purchase that spent the resources is still not visible.
C27_MetThresholdStillHidden ==
  /\ call.op = "update"
  /\ "buildServer" \in hist.reached
  /\ "buildServer" \notin engine.unlockedProducers
  /\ engine.quantity["buildServer"] = 1

\* The producers an update() call bought through auto-buy.
AutoBought == {id \in ProducerIds : engine'.quantity[id] > engine.quantity[id]}

\* C28: no producer with a positive unlockThreshold is ever purchased, by
\* purchaseProducer or by auto-buy, while it is not in the visible set.
C28_NoPurchaseWhileHidden ==
  [][/\ ( /\ IsCall("purchaseProducer") /\ call'.ret
          /\ ProducerConfig[call'.arg].unlockThreshold > 0 )
          => call'.arg \in engine.unlockedProducers
     /\ IsCall("update")
          => \A id \in AutoBought :
               ProducerConfig[id].unlockThreshold > 0
                 => id \in engine'.unlockedProducers]_vars

\* purchaseProducer has just sold a producer that no update() had made visible.
C28_BoughtWhileHidden ==
  /\ call.op = "purchaseProducer" /\ call.ret
  /\ ProducerConfig[call.arg].unlockThreshold > 0
  /\ call.arg \notin engine.unlockedProducers
  /\ engine.quantity[call.arg] = 1

\* The speed level is within 0..14 and the interval is
\* max(2000, 30000 - 2000 * level) ms, within 2000..30000.
SpeedLevelInRange(e) ==
  /\ e.autoBuySpeedLevel \in 0..14
  /\ getAutoBuyInterval(e) = Max(2000, 30000 - 2000 * e.autoBuySpeedLevel)
  /\ getAutoBuyInterval(e) \in 2000..30000

C25_ClickAndClickPower ==
  [][/\ IsCall("click")
          => engine' = [engine EXCEPT
                          !.resources = @ + BASE_CLICK_POWER
                                              * Pow(2, engine.clickPowerLevel) * Milli]
     /\ IsCall("purchaseClickPowerUpgrade")
          => /\ call'.ret <=> CanPay(engine, 10000 * Pow(2, engine.clickPowerLevel))
             /\ call'.ret
                  => /\ engine' = [engine EXCEPT
                                     !.resources = @ - 10000 * Pow(2, engine.clickPowerLevel)
                                                         * Milli,
                                     !.clickPowerLevel = @ + 1]
                     /\ getClickValue(engine') = 2 * getClickValue(engine)
             /\ ~call'.ret => engine' = engine]_vars

\* Two click-power upgrades took all of 30000 resources, and the click that
\* followed added 4.
C25_Witness ==
  /\ call.op = "click"
  /\ engine.clickPowerLevel = 2
  /\ engine.resources = 4 * Milli

\* C29: resources are never negative, in any state reached by clicks, typing,
\* purchases, toggles, update() under a clock that never goes back, save(),
\* reset() and load() of seeds or of snapshots save() returned.
C29_ResourcesNeverNegative == engine.resources >= 0

\* A purchase has just spent the resources down to exactly nothing.
C29_Witness ==
  /\ call.op \in {"purchaseClickPowerUpgrade", "purchaseProducer", "purchaseUpgrade"}
  /\ call.ret
  /\ engine.resources = 0

\* The value load leaves in a component: the snapshot's when its field f is
\* present, the pre-load value otherwise.
Loaded(s, f, before) == IF f \in DOMAIN s THEN s[f] ELSE before

\* The upgrade ids the legacy flags of snapshot s stand for.
LegacyUpgrades(s) ==
  (IF "autoBuyUnlocked" \in DOMAIN s /\ s.autoBuyUnlocked THEN {"autoBuy"} ELSE {})
    \cup (IF "typingUnlocked" \in DOMAIN s /\ s.typingUnlocked THEN {"typing"} ELSE {})

\* C26: load(snapshot) with any subset of the snapshot fields present
\* completes and changes only the components whose fields are present,
\* leaving every component whose field is absent at its pre-load value; a
\* legacy flag autoBuyUnlocked or typingUnlocked equal to true adds the
\* automation or typing upgrade id to the purchased upgrades.
C26_LoadChangesOnlyPresentFields ==
  [][IsCall("load")
       => LET s == call'.arg
          IN  /\ call'.ret
              /\ engine'.resources = Loaded(s, "resources", engine.resources)
              /\ engine'.quantity =
                   IF "producers" \in DOMAIN s
                   THEN [id \in ProducerIds |-> s.producers[id].quantity]
                   ELSE engine.quantity
              /\ engine'.totalSpent =
                   IF "producers" \in DOMAIN s
                   THEN [id \in ProducerIds |-> s.producers[id].totalSpent]
                   ELSE engine.totalSpent
              /\ engine'.productionRate =
                   IF "producers" \in DOMAIN s
                   THEN totalProduction(engine') ELSE engine.productionRate
              /\ engine'.lastUpdate = Loaded(s, "lastUpdate", engine.lastUpdate)
              /\ engine'.autoBuyEnabled = Loaded(s, "autoBuyEnabled", engine.autoBuyEnabled)
              /\ engine'.autoBuySpeedLevel
                   = Loaded(s, "autoBuySpeedLevel", engine.autoBuySpeedLevel)
              /\ engine'.unlockedProducers
                   = Loaded(s, "unlockedProducers", engine.unlockedProducers)
              /\ engine'.clickPowerLevel = Loaded(s, "clickPowerLevel", engine.clickPowerLevel)
              /\ engine'.challengesEnabled
                   = Loaded(s, "challengesEnabled", engine.challengesEnabled)
              /\ engine'.typing.challengesEnabled
                   = Loaded(s, "challengesEnabled", engine.typing.challengesEnabled)
              /\ engine'.purchasedUpgrades
                   = Loaded(s, "purchasedUpgrades", engine.purchasedUpgrades)
                       \cup LegacyUpgrades(s)
              /\ engine' = [engine EXCEPT
                              !.resources = engine'.resources,
                              !.quantity = engine'.quantity,
                              !.totalSpent = engine'.totalSpent,
                              !.productionRate = engine'.productionRate,
                              !.lastUpdate = engine'.lastUpdate,
                              !.autoBuyEnabled = engine'.autoBuyEnabled,
                              !.autoBuySpeedLevel = engine'.autoBuySpeedLevel,
                              !.unlockedProducers = engine'.unlockedProducers,
                              !.clickPowerLevel = engine'.clickPowerLevel,
                              !.challengesEnabled = engine'.challengesEnabled,
                              !.typing.challengesEnabled = engine'.typing.challengesEnabled,
                              !.purchasedUpgrades = engine'.purchasedUpgrades]]_vars

\* A snapshot of resources and the legacy typing flag alone was loaded into a
\* played game: the typing id joined the upgrades the game owned, and its
\* producers, levels and switches are as they were.
C26_Witness ==
  /\ call.op = "load"
  /\ DOMAIN call.arg = {"resources", "typingUnlocked"}
  /\ call.arg.typingUnlocked
  /\ engine.resources = 1234 * Milli
  /\ engine.purchasedUpgrades = {"autoBuy", "challenges", "typing"}
  /\ engine.quantity["cloudOrchestrator"] = 3
  /\ engine.quantity["ciPipeline"] = 1
  /\ engine.unlockedProducers = ProducerIds
  /\ engine.challengesEnabled

\* C30: for every producer and every quantity q >= 0, cost(q + 1) >= cost(q)
\* where cost(q) = floor(baseCost * costMultiplier^q), and cost(q + 1) >
\* cost(q) whenever costMultiplier > 1.
C30_CostGrowsWithQuantity ==
  \A id \in ProducerIds :
    \A q \in 0..Max(MaxQuantity, engine.quantity[id]) :
    /\ CostAt(id, q + 1) >= CostAt(id, q)
    /\ ProducerConfig[id].multNum > ProducerConfig[id].multDen
         => CostAt(id, q + 1) > CostAt(id, q)

\* Two script runners were bought at 120 and 139; the third costs 161.
C30_Witness ==
  /\ call.op = "purchaseProducer" /\ call.ret
  /\ engine.quantity["scriptRunner"] = 2
  /\ engine.totalSpent["scriptRunner"] = 120 + 139
  /\ getCost(engine, "scriptRunner") = 161

\* What an update() call spent on the producers it bought.
AutoSpent ==
  LET RECURSIVE Sum(_)
      Sum(i) == IF i = 0 THEN 0
                ELSE Sum(i - 1) + (engine'.totalSpent[ProducerOrder[i]]
                                     - engine.totalSpent[ProducerOrder[i]])
  IN  Sum(Len(ProducerOrder))

\* C31: in every update() call the elapsed time, now minus the stored
\* last-update timestamp, is >= 0, so passive production never lowers
\* resources (they fall only by what an automatic purchase spent); and the
\* stored timestamp never exceeds the current time after any operation, load
\* and reset included.
C31_ElapsedNeverNegative ==
  [][/\ IsCall("update")
          => /\ now - engine.lastUpdate >= 0
             /\ engine'.resources + AutoSpent * Milli >= engine.resources
             /\ engine'.lastUpdate = now
     /\ ~IsCall("advance") => engine'.lastUpdate <= now']_vars

\* An update() has taken 30 seconds of the production of three cloud
\* orchestrators away: the stored timestamp was ahead of the clock.
C31_ProductionLoweredResources ==
  /\ call.op = "update"
  /\ engine.lastUpdate = now
  /\ engine.quantity = [id \in ProducerIds |->
                          IF id = "cloudOrchestrator" THEN 3 ELSE 0]
  /\ engine.resources = SeedRich.resources - 30 * engine.productionRate * Milli

\* The call being made ends a challenge, by completion or by failure.
ChallengeEnded ==
  \/ engine'.typing.failedChallenges # engine.typing.failedChallenges
  \/ engine'.typing.completedChallenges # engine.typing.completedChallenges

\* Exactly one challenge ended, one way.
OneChallengeEnded ==
  engine'.typing.failedChallenges + engine'.typing.completedChallenges
    = engine.typing.failedChallenges + engine.typing.completedChallenges + 1

\* The slot holds the challenge it held before the call.
SameChallenge ==
  /\ Challenge'.active
  /\ Challenge'.id = Challenge.id
  /\ Challenge'.snippet = Challenge.snippet
  /\ Challenge'.timeLimitMs = Challenge.timeLimitMs
  /\ Challenge'.startTime = Challenge.startTime

\* An active challenge has 0 <= progress < length of its text, and progress
\* only once it has been started.
ProgressInRange(c) ==
  c.active => /\ c.progress >= 0 /\ c.progress < Len(c.snippet)
              /\ c.progress > 0 => c.startedOnNewLine

\* From no challenge: none ends, and one appears only as installed afresh.
FromNone ==
  ~Challenge.active => (~ChallengeEnded /\ (Challenge'.active => InstallsChallenge))

\* From a started challenge: it stays, advancing by at most one character, or
\* it ends, and then the slot is empty or holds one installed afresh.
FromStarted ==
  (Challenge.active /\ Challenge.startedOnNewLine)
    => IF ChallengeEnded
       THEN OneChallengeEnded /\ (Challenge'.active => InstallsChallenge)
       ELSE /\ SameChallenge /\ Challenge'.startedOnNewLine
            /\ Challenge'.progress \in {Challenge.progress, Challenge.progress + 1}

\* C32 as stated: an active challenge has 0 <= progress < length with progress
\* > 0 only if started, and the slot changes only along none -> awaiting-start
\* -> started -> (completed or failed) -> none: an awaiting challenge stays or
\* is started, it does not end; no call replaces an active challenge by
\* another without a completion or failure in between.
C32_SlotFollowsLifeCycle ==
  [][/\ ProgressInRange(Challenge) /\ ProgressInRange(Challenge')
     /\ FromNone
     /\ (Challenge.active /\ ~Challenge.startedOnNewLine)
          => (~ChallengeEnded /\ SameChallenge /\ Challenge'.progress = 0)
     /\ FromStarted]_vars

\* C32 amended: as stated, except that an awaiting challenge also ends, as
\* failed, when a character is typed after its time limit, which runs from
\* the moment it was installed; and the call that ends a challenge can leave
\* the next one installed.
C32_SlotFollowsLifeCycleOrTimesOut ==
  [][/\ ProgressInRange(Challenge) /\ ProgressInRange(Challenge')
     /\ FromNone
     /\ (Challenge.active /\ ~Challenge.startedOnNewLine)
          => IF ChallengeEnded
             THEN /\ TimedOut /\ IsCall("typeChar")
                  /\ engine'.typing.failedChallenges = engine.typing.failedChallenges + 1
                  /\ engine'.typing.completedChallenges = engine.typing.completedChallenges
                  /\ Challenge'.active => InstallsChallenge
             ELSE SameChallenge /\ Challenge'.progress = 0
     /\ FromStarted]_vars

\* A challenge triggered by hand was left waiting past its time limit, and the
\* first letter typed then failed it: it was never started.
C32_Witness ==
  /\ steps = 3
  /\ call.op = "typeChar" /\ call.arg = "a"
  /\ now = StartTime + ChallengeTimeout
  /\ engine.typing.failedChallenges = 1
  /\ engine.typing.wordsTyped = 0
  /\ engine.typing.currentWordLength = 1
  /\ ~Challenge.active

\* The engine with its challenge failed and nothing typed yet.
AfterFailure ==
  [engine EXCEPT !.typing.failedChallenges = @ + 1,
                 !.typing.streakWords = 0,
                 !.typing.challenge = NoChallenge]

\* C33: no challenge is completed after its deadline: when typeChar(c) is
\* called on an active challenge whose time limit has elapsed since its
\* start, the challenge is failed before c is examined, so progress does not
\* advance, the completed count does not change, and c is rewarded as
\* ordinary typing with the streak already reset to 0.
C33_NoCompletionAfterDeadline ==
  [][(IsCall("typeChar") /\ Challenge.active /\ TimedOut)
       => /\ engine'.typing.failedChallenges = engine.typing.failedChallenges + 1
          /\ engine'.typing.completedChallenges = engine.typing.completedChallenges
          /\ Challenge'.active => InstallsChallenge
          /\ \E i \in CatalogChoices :
               engine' = typeChar(AfterFailure, call'.arg, MINI_CHALLENGES[i], now)
          /\ TypesLetter
               => /\ engine'.resources - engine.resources \in {0, baseCharValue}
                  /\ engine'.typing.streakWords = 0]_vars

\* The last letter of 'git init' arrived after the deadline: the challenge
\* failed, and the letter was paid as the fourth letter of an ordinary word.
C33_Witness ==
  /\ call.op = "typeChar" /\ call.arg = "t"
  /\ now = StartTime + ChallengeTimeout
  /\ engine.typing.failedChallenges = 1
  /\ engine.typing.completedChallenges = 0
  /\ engine.typing.streakWords = 0
  /\ engine.typing.currentWordLength = 4
  /\ ~Challenge.active

\* C34: a challenge is started automatically only in a typeChar call in which
\* a word boundary finalizes a non-empty word, so that words-typed goes up in
\* that call; a boundary typed while the current word is empty never starts
\* a challenge.
C34_AutomaticStartOnlyWithWord ==
  [][/\ AutoStarts
          => /\ TypesBoundary
             /\ engine.typing.currentWordLength > 0
             /\ engine'.typing.wordsTyped = engine.typing.wordsTyped + 1
     /\ (TypesBoundary /\ engine.typing.currentWordLength = 0) => ~AutoStarts]_vars

\* The last key of 'docker build .' is a boundary typed on an empty word: it
\* completes the challenge, and the same call installs the next one although
\* the call finalized no word.
C34_StartedOnEmptyWord ==
  /\ call.op = "typeChar" /\ call.arg = "."
  /\ steps = 1
  /\ engine.typing.currentWordLength = 0
  /\ engine.typing.wordsTyped = wordsPerChallenge
  /\ engine.typing.lastChallengeWords = wordsPerChallenge
  /\ engine.typing.completedChallenges = 1 /\ engine.typing.failedChallenges = 0
  /\ Challenge.active /\ Challenge.progress = 0 /\ ~Challenge.startedOnNewLine
  /\ Challenge.startTime = now

(***************************************************************************)
(* The stored production rate                                              *)
(***************************************************************************)
\* The rate the owned producers yield per second, the manual producer left out.
RateOfOwned(e) ==
  ProducerConfig["scriptRunner"].productionRate * e.quantity["scriptRunner"]
    + ProducerConfig["buildServer"].productionRate * e.quantity["buildServer"]
    + ProducerConfig["ciPipeline"].productionRate * e.quantity["ciPipeline"]
    + ProducerConfig["cloudOrchestrator"].productionRate * e.quantity["cloudOrchestrator"]

\* C35: after every public operation (purchaseProducer, update with its
\* automatic purchase, load, reset) the stored productionRate equals the sum
\* over the non-manual producers of productionRate * quantity.
C35_StoredRateIsSumOfProducers == engine.productionRate = RateOfOwned(engine)

\* Half a minute into a session that loaded three cloud orchestrators and
\* switched auto-buy on, update() has bought the fourth: the stored rate is
\* 4 * 400.
C35_Witness ==
  /\ call.op = "update"
  /\ now = StartTime + 30000
  /\ engine.autoBuyer.lastBuy = now
  /\ engine.quantity["cloudOrchestrator"] = 4
  /\ engine.totalSpent["cloudOrchestrator"] = 52584 + 23413
  /\ engine.productionRate = 1600

(***************************************************************************)
(* The auto-buyer component and the engine's own auto-buy fields           *)
(***************************************************************************)
\* The countdown the engine's own fields give at time t: 0 while auto-buy is
\* off, else what is left of the current interval since the last purchase.
CountdownOfEngine(e, t) ==
  IF ~e.autoBuyEnabled THEN 0
  ELSE CeilDiv(Max(0, getAutoBuyInterval(e) - (t - e.autoBuyer.lastBuy)), 1000)

\* C37: at every getState() the auto-buyer component's enabled flag and speed
\* level equal the engine's autoBuyEnabled and autoBuySpeedLevel, so that
\* timeUntilNextAutoBuy is 0 whenever auto-buy is disabled and is computed
\* from the current interval right after toggleAutoBuy,
\* purchaseAutoBuySpeedUpgrade, load or reset, with no update in between.
C37_AutoBuyerMirrorsEngine ==
  call.op = "getState"
    => /\ engine.autoBuyer.enabled = engine.autoBuyEnabled
       /\ engine.autoBuyer.speedLevel = engine.autoBuySpeedLevel
       /\ getState(engine, now).timeUntilNextAutoBuy = CountdownOfEngine(engine, now)

\* getState() right after toggleAutoBuy() switched auto-buy on: the component
\* is still disabled and the countdown reads 0 with a whole interval to go.
C37_CountdownZeroWhileEnabled ==
  /\ call.op = "getState"
  /\ engine.autoBuyEnabled /\ enabledAt = now
  /\ ~engine.autoBuyer.enabled
  /\ getState(engine, now).timeUntilNextAutoBuy = 0
  /\ CountdownOfEngine(engine, now) = 30

(***************************************************************************)
(* The newline that starts a challenge                                     *)
(***************************************************************************)
\* C39: the newline that starts a challenge awaiting its start is consumed:
\* that typeChar call changes only the started flag; resources, words typed,
\* streak, current word length, the anti-spam last character and its repeat
\* counter are as before.
C39_StartingNewlineIsConsumed ==
  [][(IsCall("typeChar") /\ call'.arg = "\n" /\ Waiting)
       => engine' = [engine EXCEPT !.typing.challenge.startedOnNewLine = TRUE]]_vars

\* The tenth word installed a challenge, a letter was typed, then the newline:
\* the challenge is started, the letter is still the current word and still
\* the last character seen by the anti-spam counter.
C39_Witness ==
  /\ call.op = "typeChar" /\ call.arg = "\n"
  /\ Challenge.active /\ Challenge.startedOnNewLine /\ Challenge.progress = 0
  /\ engine.typing.wordsTyped = wordsPerChallenge
  /\ engine.typing.lastChallengeWords = wordsPerChallenge
  /\ engine.typing.currentWordLength = 1
  /\ engine.typing.lastTypedChar = "a"
  /\ engine.typing.consecutiveSameCharCount = 1

(***************************************************************************)
(* Auto-buy over several intervals: a game with auto-buy switched on and   *)
(* funds for more than one purchase, updated at irregular times.           *)
(***************************************************************************)
MaxBuyerSteps == 5

\* SeedBuyer: auto-buy bought and on, nothing owned, 30000 to spend.
SeedBuyer ==
  [resources |-> 30000 * Milli,
   lastUpdate |-> StartTime,
   autoBuyEnabled |-> TRUE,
   autoBuySpeedLevel |-> 0,
   unlockedProducers |-> ProducerIds,
   purchasedUpgrades |-> {"autoBuy"}]

\* Time between two calls: just short of an interval, an interval at speed
\* level 1 and at level 0, three intervals.
BuyerClockSteps == {27999, 28000, 30000, 90000}

BuyerInit ==
  /\ engine = load(NewEngine(StartTime), SeedBuyer)
  /\ now = StartTime
  /\ saved = <<>>
  /\ call = [op |-> "load", arg |-> "", ret |-> TRUE]
  /\ enabledAt = StartTime
  /\ hist = NewHist
  /\ steps = 0

BuyerWaits ==
  \E d \in BuyerClockSteps :
    /\ steps < MaxBuyerSteps
    /\ now' = now + d
    /\ call' = [op |-> "advance", arg |-> "", ret |-> TRUE]
    /\ steps' = steps + 1
    /\ UNCHANGED <<engine, saved, enabledAt, hist>>

BuyerUpdate ==
  /\ StepWithin(MaxBuyerSteps, update(engine, now), "update", "", TRUE)
  /\ UNCHANGED <<now, saved>>

BuyerSpeedsUp ==
  LET r == purchaseAutoBuySpeedUpgrade(engine)
  IN  /\ StepWithin(MaxBuyerSteps, r.e, "purchaseAutoBuySpeedUpgrade", "", r.ret)
      /\ UNCHANGED <<now, saved>>

BuyerToggles ==
  /\ StepWithin(MaxBuyerSteps, toggleAutoBuy(engine, now), "toggleAutoBuy", "", TRUE)
  /\ UNCHANGED <<now, saved>>

BuyerNext ==
  \/ BuyerWaits
  \/ BuyerUpdate
  \/ BuyerSpeedsUp
  \/ BuyerToggles

BuyerSpec == BuyerInit /\ [][BuyerNext]_vars

\* How many producers the call bought.
BoughtCount ==
  LET RECURSIVE Sum(_)
      Sum(i) == IF i = 0 THEN 0
                ELSE Sum(i - 1) + engine'.quantity[ProducerOrder[i]]
                                - engine.quantity[ProducerOrder[i]]
  IN  Sum(Len(ProducerOrder))

\* C38: a single update() performs at most one automatic purchase, however
\* long the elapsed time; any two consecutive automatic purchases are
\* separated by at least the interval in force at the second.
C38_OnePurchasePerInterval ==
  [][IsCall("update")
       => /\ BoughtCount \in {0, 1}
          /\ (BoughtCount = 1 /\ hist.boughtAt # NoTime)
               => now' - hist.boughtAt >= getAutoBuyInterval(engine')]_vars

\* The second automatic purchase of a session in which a speed upgrade was
\* bought after the first: 58 seconds in, one cloud orchestrator and one CI
\* pipeline owned.
C38_Witness ==
  /\ call.op = "update"
  /\ steps = 5
  /\ now = StartTime + 58000
  /\ hist.boughtAt = now
  /\ engine.autoBuySpeedLevel = 1
  /\ engine.quantity["cloudOrchestrator"] = 1
  /\ engine.quantity["ciPipeline"] = 1

(***************************************************************************)
(* A game played without load(): from a new engine, or from the reset of a *)
(* loaded game, resources earned by cheatClick and spent on producers.     *)
(***************************************************************************)
MaxShopSteps == 7

ShopIds == {MANUAL_ID, "scriptRunner", "buildServer"}

\* A new engine, and a long game right after its reset (the one-time
\* upgrades stay owned).
ShopStarts ==
  {NewEngine(StartTime), reset(load(NewEngine(StartTime), SeedRich), StartTime)}

ShopInit ==
  /\ engine \in ShopStarts
  /\ now = StartTime
  /\ saved = <<>>
  /\ call = [op |-> "reset", arg |-> "", ret |-> TRUE]
  /\ enabledAt = NoTime
  /\ hist = NewHist
  /\ steps = 0

ShopWaits ==
  /\ steps < MaxShopSteps
  /\ now' = now + 30000
  /\ call' = [op |-> "advance", arg |-> "", ret |-> TRUE]
  /\ steps' = steps + 1
  /\ UNCHANGED <<engine, saved, enabledAt, hist>>

ShopCheatClick ==
  /\ StepWithin(MaxShopSteps, cheatClick(engine), "cheatClick", "", TRUE)
  /\ UNCHANGED <<now, saved>>

ShopPurchase ==
  \E id \in ShopIds :
    LET r == purchaseProducer(engine, id, now)
    IN  /\ StepWithin(MaxShopSteps, r.e, "purchaseProducer", id, r.ret)
        /\ UNCHANGED <<now, saved>>

ShopToggleAutoBuy ==
  /\ StepWithin(MaxShopSteps, toggleAutoBuy(engine, now), "toggleAutoBuy", "", TRUE)
  /\ UNCHANGED <<now, saved>>

ShopUpdate ==
  /\ StepWithin(MaxShopSteps, update(engine, now), "update", "", TRUE)
  /\ UNCHANGED <<now, saved>>

ShopReset ==
  /\ StepWithin(MaxShopSteps, reset(engine, now), "reset", "", TRUE)
  /\ UNCHANGED <<now, saved>>

ShopNext ==
  \/ ShopWaits
  \/ ShopCheatClick
  \/ ShopPurchase
  \/ ShopToggleAutoBuy
  \/ ShopUpdate
  \/ ShopReset

ShopSpec == ShopInit /\ [][ShopNext]_vars

\* The prices of the first q units of a producer, added up.
RECURSIVE PriceOfFirst(_, _)
PriceOfFirst(id, q) ==
  IF q = 0 THEN 0 ELSE PriceOfFirst(id, q - 1) + CostAt(id, q - 1)

\* C40: in every state reached from the initial state or from a reset, with
\* no load, each producer's totalSpent equals the sum of
\* floor(baseCost * costMultiplier^k) for k from 0 to quantity - 1, and
\* quantity never decreases except by reset.
C40_TotalSpentIsSumOfPrices ==
  [][/\ \A id \in ProducerIds :
          engine'.totalSpent[id] = PriceOfFirst(id, engine'.quantity[id])
     /\ ~IsCall("reset")
          => \A id \in ProducerIds : engine'.quantity[id] >= engine.quantity[id]]_vars

\* Two script runners, one bought by auto-buy and one by hand, after the
\* reset of a loaded game: 120 + 139 spent.
C40_Witness ==
  /\ call.op = "purchaseProducer" /\ call.ret
  /\ hist.boughtAt = StartTime + 30000
  /\ engine.quantity["scriptRunner"] = 2
  /\ engine.totalSpent["scriptRunner"] = 259
  /\ engine.totalSpent["cloudOrchestrator"] = 0

(***************************************************************************)
(* The speed upgrade at its cap.  canAffordAutoBuySpeedUpgrade and         *)
(* purchaseAutoBuySpeedUpgrade read and write three fields only: the       *)
(* owned upgrades, the resources and the speed level, and every amount     *)
(* they handle is a whole number.  Here the engine is those three fields,  *)
(* resources counted whole, so that the price at level 14 (2919292) can    *)
(* be held.                                                                *)
(***************************************************************************)
MaxCapSteps == 2

CapLevels == 0..MAX_SPEED_LEVEL

\* No resources, and the resources just below and at the price of each level.
CapAmounts ==
  {0} \cup {SpeedUpgradeCostAt(l) - 1 : l \in CapLevels}
      \cup {SpeedUpgradeCostAt(l) : l \in CapLevels}

\* Speed levels are bought only with the automation upgrade owned.
CapEngines ==
  {e \in [purchasedUpgrades : {{}, {"autoBuy"}},
          wholeResources : CapAmounts,
          autoBuySpeedLevel : CapLevels] :
     "autoBuy" \notin e.purchasedUpgrades => e.autoBuySpeedLevel = 0}

CapInit ==
  /\ engine \in CapEngines
  /\ now = StartTime
  /\ saved = <<>>
  /\ call = [op |-> "new", arg |-> "", ret |-> TRUE]
  /\ enabledAt = NoTime
  /\ hist = NewHist
  /\ steps = 0

\* getState(): the flag canAffordAutoBuySpeedUpgrade of the returned view.
CapGetState ==
  /\ steps < MaxCapSteps
  /\ call' = [op |-> "getState", arg |-> "",
              ret |-> SpeedUpgradeAffordable("autoBuy" \in engine.purchasedUpgrades,
                                             engine.wholeResources,
                                             engine.autoBuySpeedLevel)]
  /\ steps' = steps + 1
  /\ UNCHANGED <<engine, now, saved, enabledAt, hist>>

CapPurchase ==
  LET sells == SpeedUpgradeSells("autoBuy" \in engine.purchasedUpgrades,
                                 engine.wholeResources, engine.autoBuySpeedLevel)
  IN  /\ steps < MaxCapSteps
      /\ engine' = IF ~sells THEN engine
                   ELSE [engine EXCEPT
                           !.wholeResources = @ - SpeedUpgradeCostAt(engine.autoBuySpeedLevel),
                           !.autoBuySpeedLevel = @ + 1]
      /\ call' = [op |-> "purchaseAutoBuySpeedUpgrade", arg |-> "", ret |-> sells]
      /\ steps' = steps + 1
      /\ UNCHANGED <<now, saved, enabledAt, hist>>

CapNext ==
  \/ CapGetState
  \/ CapPurchase

CapSpec == CapInit /\ [][CapNext]_vars

\* C36: whenever getState() reports canAffordAutoBuySpeedUpgrade = true, with
\* the automation upgrade owned, a purchaseAutoBuySpeedUpgrade() called right
\* after it succeeds; in particular the flag is false at speed level 14.
C36_OfferedSpeedUpgradeCanBeBought ==
  [][/\ ( /\ call.op = "getState" /\ call.ret
          /\ "autoBuy" \in engine.purchasedUpgrades
          /\ IsCall("purchaseAutoBuySpeedUpgrade") )
          => call'.ret
     /\ (IsCall("getState") /\ engine'.autoBuySpeedLevel = MAX_SPEED_LEVEL)
          => ~call'.ret]_vars

\* getState() at speed level 14 with 2919292 resources: the flag is true, and
\* no purchase can follow.
C36_OfferedAtTheCap ==
  /\ call.op = "getState" /\ call.ret
  /\ "autoBuy" \in engine.purchasedUpgrades
  /\ engine.autoBuySpeedLevel = MAX_SPEED_LEVEL
  /\ engine.wholeResources = 2919292
  /\ ~SpeedUpgradeSells(TRUE, engine.wholeResources, engine.autoBuySpeedLevel)

====
